---- MODULE Spec2Model ----
(***************************************************************************)
(* plaud-extractor: the synchronization and integrity subsystem.           *)
(*                                                                         *)
(*   SpecQueue   processQueue (the bounded work queue) with arbitrary      *)
(*               processors                                                *)
(*   SpecAtomic  writeFileAtomic / writeStreamAtomic on one destination    *)
(*   SpecRetry   retryWithBackoff with an arbitrary operation              *)
(*   SpecList    the loading and listing steps of SyncEngine.run           *)
(*   SpecChecksums  writeChecksumManifest / verifyChecksums on a directory  *)
(*   SpecSink    DatasetWriter: open, append, close over one dataset file  *)
(*   SpecReauth  PlaudExtractor.runWithReauth (sync / backfill)            *)
(*   SpecJobs    the background jobs of plaud_sync / plaud_backfill        *)
(*   Spec        SyncEngine.run (sync, backfill, dry run) and              *)
(*               PlaudExtractor.verify over one output directory           *)
(***************************************************************************)
EXTENDS Integers, Sequences, FiniteSets, TLC

(***************************************************************************)
(* Bounds of the model.                                                    *)
(***************************************************************************)
\* longest item list handed to processQueue in SpecQueue
MaxItems == 4
\* largest concurrency limit
MaxConc == 3

VARIABLES
  \* ---- processQueue (src/src/sync/incremental.ts 125-168)
  items,        \* the input list
  concurrency,  \* the limit N
  index,        \* number of items taken from the list so far
  active,       \* processors started and not yet settled
  resolve,      \* TRUE iff the coordinator's wake-up callback is registered
  qpc,          \* position of the coordinator
  task,         \* per list position: "idle" | "running" | "ok" | "err"
  invoked,      \* per list position: how often processor(item) was called
  thrown,       \* per list position: what the processor raised
  succeeded,    \* result list: list positions
  failed,       \* result list: [item |-> position, error |-> Error]
  \* ---- writeFileAtomic / writeStreamAtomic (src/unnamed/part_005)
  akind,        \* "file" (writeFileAtomic) | "stream" (writeStreamAtomic) | "off"
  apc,          \* position of the call
  alive,        \* FALSE once the process has been killed
  fsys,         \* the two paths: [exists, bytes] each
  prior,        \* content of the destination when the call was made
  data,         \* the bytes to write (the chunks the source yields)
  cause,        \* the error caught by the catch block ("none" if none)
  raised,       \* the error the call raised ("none" if none)
  srcPos,       \* chunks the copy loop has handed to out.write
  srcState,     \* source stream: "reading" | "ended" | "failed" | "off"
  outState,     \* write stream: "pending" | "open" | "orphan" | "errored" |
                \* "finished" | "off"
  \* ---- the remote service and the output directory
  remote,       \* per recording id: the volatile fields the service reports
  stateFile,    \* _state/sync_state.json: [exists, state]
  disk,         \* per recording id: the files of its directory
  dataset,      \* datasets/plaud_transcripts.jsonl: the ids of its lines
  \* ---- SyncEngine.run / PlaudExtractor.verify
  now,          \* the clock: the number of the current operation
  rpc,          \* position of the operation
  kind,         \* "run" | "verify" | "none"
  opts,         \* the options of the run
  tracker,      \* IncrementalTracker.state
  startFile,    \* stateFile as it was when the operation started
  dsStart,      \* lines of the dataset file when the operation started
  dsOpen,       \* TRUE iff the dataset sink holds an open stream
  skipped,      \* the listed recordings that need no download
  ipc,          \* per list position: the step of downloadRecording
  attempt,      \* per list position: attempt of retryWithBackoff
  hasTx,        \* per list position: the local hasTranscript
  hasAu,        \* per list position: the local hasAudio
  faultsOf,     \* per list position: the failures met while processing it
  faults,       \* failures injected so far, over all operations
  persistCalls, \* calls of tracker.persist in this operation
  phaseFail,    \* the phase of run that raised ("none" if none)
  runErr,       \* the error raised to the caller of run
  result,       \* the SyncResult returned
  \* ---- retryWithBackoff (src/src/sync/incremental.ts 174-204)
  targ,         \* opts.maxAttempts (Undefined if not given)
  tpc,          \* "try" | "sleep" | "returned" | "raised" | "off"
  tattempt,     \* the loop variable attempt
  tcalls,       \* the outcome of each call of fn so far
  tslept,       \* the delays waited so far
  tout,         \* what the call returned or raised
  \* ---- writeChecksumManifest / verifyChecksums (src/src/storage/checksums.ts)
  ck,           \* [dir, op, out]: a directory, the last call and its result
  \* ---- DatasetWriter (src/src/storage/dataset-writer.ts)
  sink,         \* the dataset file, the write stream and the calls made
  \* ---- PlaudExtractor.runWithReauth (src/unnamed/part_002 84-102)
  reauth,       \* position of the call, the calls it made and its outcome
  \* ---- plaud_sync / plaud_backfill (src/src/mcp/job-tools.ts)
  job,          \* per job: position of the handler and the job file
  \* ---- PlaudApiClient.listRecordings (src/src/client/plaud-client.ts 50-82)
  pg            \* the pages requested, the recordings yielded, the entries written

qvars == <<items, concurrency, index, active, resolve, qpc, task, invoked,
           thrown, succeeded, failed>>

(***************************************************************************)
(* processQueue                                                            *)
(***************************************************************************)
\* a thrown value: an Error object (isError) of some class, with the HTTP
\* status of an ApiError and whether its message contains "429"; or any
\* other value
Thrown(isErr, name, status, has429) ==
  [isError |-> isErr, name |-> name, status |-> status, has429 |-> has429]

\* nothing was thrown
NoError == Thrown(FALSE, "none", 0, FALSE)

\* what a processor of SpecQueue may raise: two Error objects and one
\* value that is not an Error
Throwables ==
  { Thrown(TRUE, "Error", 0, FALSE),
    Thrown(TRUE, "ApiError", 503, FALSE),
    Thrown(FALSE, "string", 0, FALSE) }

\* err instanceof Error ? err : new Error(String(err))
ToError(err) ==
  IF err.isError THEN err ELSE Thrown(TRUE, "Error", 0, err.has429)

\* mutant: the slot test lets one processor too many start
CanStart_OffByOne(a, idx) == a <= concurrency /\ idx < Len(items)

\* the guard of tick's while loop
CanStart(a, idx) == a < concurrency /\ idx < Len(items)

\* tick(): start items while a slot is free; the loop body never suspends,
\* so all starts of one tick happen in one step
RECURSIVE TickFrom(_, _)
TickFrom(a, idx) ==
  IF CanStart(a, idx) THEN TickFrom(a + 1, idx + 1) ELSE <<a, idx>>

\* mutant: the drain loop forgets the processors still in flight
LoopCond_NoActive == index < Len(items)

\* the guard of the coordinator's drain loop
LoopCond == active > 0 \/ index < Len(items)

\* mutant: the success push sits in the finally block
PushSucceeded_Always(p, err) == Append(succeeded, p)

\* the try / catch of the per-item wrapper: where a settled item is recorded
PushSucceeded(p, err) ==
  IF err = NoError THEN Append(succeeded, p) ELSE succeeded
PushFailed(p, err) ==
  IF err = NoError THEN failed
  ELSE Append(failed, [item |-> p, error |-> ToError(err)])

QueueIdle ==
  /\ items = <<>> /\ concurrency = 1 /\ index = 0 /\ active = 0
  /\ resolve = FALSE /\ qpc = "off"
  /\ task = <<>> /\ invoked = <<>> /\ thrown = <<>>
  /\ succeeded = <<>> /\ failed = <<>>

\* processQueue(its, processor, n) is called: the locals are initialised
QueueCall(its, n) ==
  /\ items' = its /\ concurrency' = n
  /\ index' = 0 /\ active' = 0 /\ resolve' = FALSE /\ qpc' = "start"
  /\ task' = [p \in 1..Len(its) |-> "idle"]
  /\ invoked' = [p \in 1..Len(its) |-> 0]
  /\ thrown' = [p \in 1..Len(its) |-> NoError]
  /\ succeeded' = <<>> /\ failed' = <<>>

\* the state change of one tick() call
TickEffect ==
  LET r == TickFrom(active, index) IN
  /\ active' = r[1]
  /\ index' = r[2]
  /\ task' = [p \in DOMAIN task |->
                IF p > index /\ p <= r[2] THEN "running" ELSE task[p]]
  /\ invoked' = [p \in DOMAIN invoked |->
                IF p > index /\ p <= r[2] THEN invoked[p] + 1 ELSE invoked[p]]

\* await tick(): the first call, or the call after a wake-up
Tick ==
  /\ qpc \in {"start", "woken"}
  /\ TickEffect
  /\ qpc' = "ticked"
  /\ UNCHANGED <<items, concurrency, resolve, thrown, succeeded, failed>>

\* the while test, and, when it holds, the registration of the wake-up
Drain ==
  /\ qpc = "ticked"
  /\ IF LoopCond
       THEN resolve' = TRUE /\ qpc' = "waiting"
       ELSE resolve' = FALSE /\ qpc' = "returned"
  /\ UNCHANGED <<items, concurrency, index, active, task, invoked, thrown,
                 succeeded, failed>>

\* the continuation after await processor(item): record, free the slot, wake
SettleEffect(p, err) ==
  /\ task[p] = "running"
  /\ task' = [task EXCEPT ![p] = IF err = NoError THEN "ok" ELSE "err"]
  /\ thrown' = [thrown EXCEPT ![p] = err]
  /\ succeeded' = PushSucceeded(p, err)
  /\ failed' = PushFailed(p, err)
  /\ active' = active - 1
  /\ resolve' = FALSE
  /\ qpc' = IF resolve THEN "woken" ELSE qpc
  /\ UNCHANGED <<items, concurrency, index, invoked>>

\* a processor of SpecQueue completes without raising
ProcessorResolves ==
  \E p \in DOMAIN task : SettleEffect(p, NoError)

\* a processor of SpecQueue raises
ProcessorRejects ==
  \E p \in DOMAIN task : \E err \in Throwables : SettleEffect(p, err)

avars == <<akind, apc, fsys, prior, data, cause, raised, srcPos,
           srcState, outState>>

(***************************************************************************)
(* writeFileAtomic / writeStreamAtomic                                     *)
(***************************************************************************)
\* longest content, in chunks
MaxChunks == 2

\* mutant: the data is written straight to the destination path
TmpPath_IsDest == "dest"

\* `${filePath}.tmp-${random}`: a sibling of the destination
TmpPath == "tmp"

\* a path holds no file, or a file with these chunks
Absent == [exists |-> FALSE, bytes |-> <<>>]
File(chunks) == [exists |-> TRUE, bytes |-> chunks]

\* new StorageError(message, filePath, err)
StorageError(path, err) == [name |-> "StorageError", path |-> path, cause |-> err]
NoStorageError == [name |-> "none", path |-> "none", cause |-> "none"]

\* fs.rename(from, to): one atomic step of the file system
Rename(f, from, to) ==
  IF from = to THEN f
  ELSE [f EXCEPT ![to] = f[from], ![from] = Absent]

\* fs.unlink(path); ENOENT is swallowed by .catch(() => undefined)
Unlink(f, path) == [f EXCEPT ![path] = Absent]

AtomicIdle ==
  /\ akind = "off" /\ apc = "off" /\ alive = TRUE
  /\ fsys = [dest |-> Absent, tmp |-> Absent]
  /\ prior = Absent /\ data = <<>> /\ cause = "none" /\ raised = NoStorageError
  /\ srcPos = 0 /\ srcState = "off" /\ outState = "off"

\* reject(err) of the promise around the write stream: only the first
\* settlement of a promise counts
Reject(err) ==
  IF apc = "stream"
    THEN apc' = "catch" /\ cause' = err
    ELSE UNCHANGED <<apc, cause>>

\* fs.mkdir(dirname, {recursive: true}) succeeds
AMkdir ==
  /\ alive /\ apc = "mkdir"
  /\ apc' = IF akind = "file" THEN "write" ELSE "stream"
  /\ outState' = IF akind = "file" THEN "off" ELSE "pending"
  /\ srcState' = IF akind = "file" THEN "off" ELSE "reading"
  /\ UNCHANGED <<akind, alive, fsys, prior, data, cause, raised, srcPos>>

\* fs.mkdir fails
AMkdirFails ==
  /\ alive /\ apc = "mkdir"
  /\ apc' = "catch" /\ cause' = "EMKDIR"
  /\ UNCHANGED <<akind, alive, fsys, prior, data, raised, srcPos, srcState,
                 outState>>

\* fs.writeFile(tmpPath, data): the file is created (truncated) ...
AWriteOpen ==
  /\ alive /\ apc = "write"
  /\ fsys' = [fsys EXCEPT ![TmpPath] = File(<<>>)]
  /\ apc' = "writing"
  /\ UNCHANGED <<akind, alive, prior, data, cause, raised, srcPos, srcState,
                 outState>>

\* ... filled chunk by chunk ...
AWriteChunk ==
  /\ alive /\ apc = "writing"
  /\ Len(fsys[TmpPath].bytes) < Len(data)
  /\ fsys' = [fsys EXCEPT
                ![TmpPath] = File(Append(@.bytes, data[Len(@.bytes) + 1]))]
  /\ UNCHANGED <<akind, apc, alive, prior, data, cause, raised, srcPos,
                 srcState, outState>>

\* ... and closed
AWriteDone ==
  /\ alive /\ apc = "writing"
  /\ Len(fsys[TmpPath].bytes) = Len(data)
  /\ apc' = "rename"
  /\ UNCHANGED <<akind, alive, fsys, prior, data, cause, raised, srcPos,
                 srcState, outState>>

\* fs.writeFile fails, before or after any chunk
AWriteFails ==
  /\ alive /\ apc \in {"write", "writing"}
  /\ apc' = "catch" /\ cause' = "EWRITE"
  /\ UNCHANGED <<akind, alive, fsys, prior, data, raised, srcPos, srcState,
                 outState>>

\* for await (const chunk of stream) out.write(chunk): the chunk is buffered
SrcChunk ==
  /\ alive /\ srcState = "reading" /\ srcPos < Len(data)
  /\ srcPos' = srcPos + 1
  /\ UNCHANGED <<akind, apc, alive, fsys, prior, data, cause, raised,
                 srcState, outState>>

\* the source is exhausted: out.end()
SrcEnd ==
  /\ alive /\ srcState = "reading" /\ srcPos = Len(data)
  /\ srcState' = "ended"
  /\ UNCHANGED <<akind, apc, alive, fsys, prior, data, cause, raised, srcPos,
                 outState>>

\* the source raises: the copy loop ends and .catch(reject) runs; out is
\* neither ended nor destroyed
SrcError ==
  /\ alive /\ srcState = "reading"
  /\ srcState' = "failed"
  /\ Reject("ESRC")
  /\ UNCHANGED <<akind, alive, fsys, prior, data, raised, srcPos, outState>>

\* createWriteStream opens its file asynchronously (flags 'w'): the file is
\* created some time after the constructor has returned
OutOpen ==
  /\ alive /\ outState = "pending"
  /\ fsys' = [fsys EXCEPT ![TmpPath] = File(<<>>)]
  /\ outState' = "open"
  /\ UNCHANGED <<akind, apc, alive, prior, data, cause, raised, srcPos,
                 srcState>>

\* the open fails: out emits 'error'
OutOpenFails ==
  /\ alive /\ outState = "pending"
  /\ outState' = "errored"
  /\ Reject("EOPEN")
  /\ UNCHANGED <<akind, alive, fsys, prior, data, raised, srcPos, srcState>>

\* a buffered chunk reaches the file
OutFlush ==
  /\ alive /\ outState = "open"
  /\ Len(fsys[TmpPath].bytes) < srcPos
  /\ fsys' = [fsys EXCEPT
                ![TmpPath] = File(Append(@.bytes, data[Len(@.bytes) + 1]))]
  /\ UNCHANGED <<akind, apc, alive, prior, data, cause, raised, srcPos,
                 srcState, outState>>

\* a write to the file fails: out emits 'error'
OutWriteFails ==
  /\ alive /\ outState = "open"
  /\ Len(fsys[TmpPath].bytes) < srcPos
  /\ outState' = "errored"
  /\ Reject("EWRITE")
  /\ UNCHANGED <<akind, alive, fsys, prior, data, raised, srcPos, srcState>>

\* out emits 'finish': ended and everything flushed; resolve()
OutFinish ==
  /\ alive /\ outState = "open" /\ srcState = "ended"
  /\ Len(fsys[TmpPath].bytes) = srcPos
  /\ outState' = "finished"
  /\ apc' = IF apc = "stream" THEN "rename" ELSE apc
  /\ UNCHANGED <<akind, alive, fsys, prior, data, cause, raised, srcPos,
                 srcState>>

\* fs.rename(tmpPath, filePath) succeeds: the call returns
ARename ==
  /\ alive /\ apc = "rename"
  /\ fsys' = Rename(fsys, TmpPath, "dest")
  /\ apc' = "returned"
  /\ UNCHANGED <<akind, alive, prior, data, cause, raised, srcPos, srcState,
                 outState>>

\* fs.rename fails
ARenameFails ==
  /\ alive /\ apc = "rename"
  /\ apc' = "catch" /\ cause' = "ERENAME"
  /\ UNCHANGED <<akind, alive, fsys, prior, data, raised, srcPos, srcState,
                 outState>>

\* catch: await fs.unlink(tmpPath).catch(() => undefined); a write stream
\* that already holds the file open keeps writing to the unlinked file
ACatchUnlink ==
  /\ alive /\ apc = "catch"
  /\ fsys' = Unlink(fsys, TmpPath)
  /\ outState' = IF outState = "open" THEN "orphan" ELSE outState
  /\ apc' = "throw"
  /\ UNCHANGED <<akind, alive, prior, data, cause, raised, srcPos, srcState>>

\* catch: throw new StorageError(..., filePath, err)
AThrow ==
  /\ alive /\ apc = "throw"
  /\ raised' = StorageError("dest", cause)
  /\ apc' = "raised"
  /\ UNCHANGED <<akind, alive, fsys, prior, data, cause, srcPos, srcState,
                 outState>>

\* the process is killed
AKill ==
  /\ alive /\ apc \notin {"off", "returned", "raised"}
  /\ alive' = FALSE
  /\ UNCHANGED <<akind, apc, fsys, prior, data, cause, raised, srcPos,
                 srcState, outState>>

(***************************************************************************)
(* The remote recordings and the tracker                                   *)
(***************************************************************************)
\* operations (runs, verify passes) in one behaviour
MaxOps == 3
\* failures injected in one behaviour
MaxFaults == 1

\* the recordings of the account, in the order the service lists them; the
\* last id contains "429", so every path derived from it does
ListOrder == <<"r1", "r2", "r429">>
Ids == {ListOrder[k] : k \in DOMAIN ListOrder}
Includes429(id) == id = "r429"

\* an absent optional value (since, a timestamp)
Undefined == -1

\* recordedAt of the recording, on the clock of the model
RecordedAt(id) == remote[id].recordedAt

\* the PlaudRecording the client yields for an id
Recording(id) ==
  [id |-> id, recordedAt |-> RecordedAt(id),
   updatedAt |-> remote[id].updatedAt,
   hasTranscript |-> remote[id].hasTranscript]

\* RecordingState; present = FALSE stands for a key that is not in the map.
\* A timestamp of 0 is an absent one.
NoState ==
  [present |-> FALSE, contentHash |-> <<>>, downloadedAt |-> 0,
   hasAudio |-> FALSE, hasTranscript |-> FALSE, verified |-> FALSE,
   verifiedAt |-> 0]

\* the state a fresh IncrementalTracker holds
EmptySyncState ==
  [lastSuccessfulSyncAt |-> 0, lastAttemptAt |-> 0,
   recordings |-> [id \in Ids |-> NoState]]

\* sha256 over the JSON of the chosen fields: modelled as the fields
computeContentHash(rec) == <<rec.id, rec.updatedAt, rec.hasTranscript>>

\* mutant: the transcript-appeared test is missing
needsDownload_NoTranscriptTest(tr, rec) ==
  LET existing == tr.recordings[rec.id] IN
  IF ~existing.present THEN TRUE
  ELSE IF existing.contentHash # computeContentHash(rec) THEN TRUE
  ELSE IF existing.downloadedAt = 0 THEN TRUE
  ELSE FALSE

\* mutant: the test for a missing downloadedAt is missing
needsDownload_NoDownloadedAtTest(tr, rec) ==
  LET existing == tr.recordings[rec.id] IN
  IF ~existing.present THEN TRUE
  ELSE IF existing.contentHash # computeContentHash(rec) THEN TRUE
  ELSE IF ~existing.hasTranscript /\ rec.hasTranscript THEN TRUE
  ELSE FALSE

needsDownload(tr, rec) ==
  LET existing == tr.recordings[rec.id] IN
  IF ~existing.present THEN TRUE
  ELSE IF existing.contentHash # computeContentHash(rec) THEN TRUE
  ELSE IF ~existing.hasTranscript /\ rec.hasTranscript THEN TRUE
  ELSE IF existing.downloadedAt = 0 THEN TRUE
  ELSE FALSE

markComplete(tr, id, au, tx, hash) ==
  [tr EXCEPT !.recordings[id] =
     [present |-> TRUE, contentHash |-> hash, downloadedAt |-> now,
      hasAudio |-> au, hasTranscript |-> tx, verified |-> FALSE,
      verifiedAt |-> 0]]

markVerified(tr, id) ==
  IF tr.recordings[id].present
    THEN [tr EXCEPT !.recordings[id].verified = TRUE,
                    !.recordings[id].verifiedAt = now]
    ELSE tr

markSuccessfulSync(tr) == [tr EXCEPT !.lastSuccessfulSyncAt = now]

getSince(tr) ==
  IF tr.lastSuccessfulSyncAt = 0 THEN Undefined ELSE tr.lastSuccessfulSyncAt

\* _state/sync_state.json: no file; or a file whose text is not JSON
\* ("unparsable"), is JSON that SyncStateSchema rejects ("invalid"), or is
\* JSON that it accepts ("valid"); state is the parsed content
NoFile == [exists |-> FALSE, form |-> "none", state |-> EmptySyncState]
ValidFile(st) == [exists |-> TRUE, form |-> "valid", state |-> st]

\* fs.readFile raises (ENOENT), or JSON.parse raises: the catch block
ReadRaises(f) == ~f.exists \/ f.form = "unparsable"

\* mutant: the parsed JSON is taken over without the schema check
SchemaAccepts_Anything(f) == TRUE

\* SyncStateSchema.safeParse(json).success
SchemaAccepts(f) == f.form = "valid"

\* load() on a tracker holding st: this.state is assigned only when the
\* file was read, parsed and accepted; both other paths only log
load(st) ==
  IF ReadRaises(stateFile) THEN st
  ELSE IF SchemaAccepts(stateFile) THEN stateFile.state
  ELSE st

(***************************************************************************)
(* The files of one recording directory                                    *)
(***************************************************************************)
\* an entry of the directory is its content: 0 when there is none, a
\* positive number for a regular file, NotRegular for a subdirectory
FileNames == {"meta", "tx", "audio"}
NotRegular == -2
IsFile(c) == c > 0

\* the names in the order readdir and Object.entries yield them
FileOrder == <<"audio", "meta", "tx">>

\* sha256File: the digest of the content; distinct contents have distinct
\* digests
sha256File(c) == <<"sha256", c>>

\* stat.size: the contents 1 and 2 are equally long
SizeOf(c) == (c + 1) \div 2

\* a FileChecksum of the manifest; NoEntry: the name has no entry
FileChecksum(c) == [sha256 |-> sha256File(c), sizeBytes |-> SizeOf(c)]
NoEntry == [sha256 |-> <<>>, sizeBytes |-> 0]
NoManifest == [exists |-> FALSE, files |-> [f \in FileNames |-> NoEntry]]
EmptyDir == [meta |-> 0, tx |-> 0, audio |-> 0, manifest |-> NoManifest]

\* mutant: the manifest is patched, the entry of a vanished file stays
ManifestEntry_Patch(d, f) ==
  IF IsFile(d[f]) THEN FileChecksum(d[f]) ELSE d.manifest.files[f]

\* the loop body of writeChecksumManifest for the directory entry f:
\* if (!stat.isFile()) continue
ManifestEntry(d, f) ==
  IF IsFile(d[f]) THEN FileChecksum(d[f]) ELSE NoEntry

\* writeChecksumManifest: manifest.files starts as {} and gets an entry for
\* every regular file readdir lists; the manifest file is then replaced
writeChecksumManifest(d) ==
  [d EXCEPT !.manifest =
     [exists |-> TRUE, files |-> [f \in FileNames |-> ManifestEntry(d, f)]]]

\* new ChecksumMismatchError(fPath, expected, actual)
Missing == <<"MISSING">>
ChecksumMismatchError(f, expected, actual) ==
  [filePath |-> f, expected |-> expected, actual |-> actual]

\* mutant: a file that cannot be read is passed over
EntryMismatch_MissingOk(d, f) ==
  LET e == d.manifest.files[f] IN
  IF e = NoEntry \/ ~IsFile(d[f]) THEN <<>>
  ELSE IF sha256File(d[f]) # e.sha256
    THEN <<ChecksumMismatchError(f, e.sha256, sha256File(d[f]))>>
  ELSE <<>>

\* the loop body of verifyChecksums for the name f: nothing if the manifest
\* has no entry for it; sha256File raises for a missing file and for a
\* directory, and the catch reports MISSING
EntryMismatch(d, f) ==
  LET e == d.manifest.files[f] IN
  IF e = NoEntry THEN <<>>
  ELSE IF ~IsFile(d[f])
    THEN <<ChecksumMismatchError(f, e.sha256, Missing)>>
  ELSE IF sha256File(d[f]) # e.sha256
    THEN <<ChecksumMismatchError(f, e.sha256, sha256File(d[f]))>>
  ELSE <<>>

\* verifyChecksums: [] when the manifest cannot be read, else the
\* mismatches of the manifest entries, in their order
RECURSIVE MismatchesFrom(_, _)
MismatchesFrom(d, k) ==
  IF k > Len(FileOrder) THEN <<>>
  ELSE EntryMismatch(d, FileOrder[k]) \o MismatchesFrom(d, k + 1)
verifyChecksums(d) ==
  IF ~d.manifest.exists THEN <<>> ELSE MismatchesFrom(d, 1)

(***************************************************************************)
(* retryWithBackoff around downloadRecording                               *)
(***************************************************************************)
\* maxAttempts ?? 4
MaxAttempts == 4

isRetryableError(err) ==
  IF err.name = "ApiError" THEN err.status >= 500 \/ err.status = 429
  ELSE err.isError /\ err.has429

\* the errors of the storage layer carry the path in their message
StorageErrorFor(id) == Thrown(TRUE, "StorageError", 0, Includes429(id))
AuthError == Thrown(TRUE, "AuthError", 0, FALSE)
ApiError(status) == Thrown(TRUE, "ApiError", status, FALSE)

(***************************************************************************)
(* retryWithBackoff(fn, opts) on its own                                   *)
(***************************************************************************)
tvars == <<targ, tpc, tattempt, tcalls, tslept, tout>>
xvars == <<ck, sink, reauth, job, pg>>

\* largest maxAttempts a caller passes
MaxAttemptsArg == 5

\* const delays = [0, 1000, 4000, 16000]
Delays == <<0, 1000, 4000, 16000>>

\* delays[attempt] ?? 16000 (the array is indexed from 0)
DelayAfter(att) == IF att + 1 <= Len(Delays) THEN Delays[att + 1] ELSE 16000

\* mutant: the default ceiling is one attempt more
EffectiveMax_OneMore(arg) == IF arg = Undefined THEN MaxAttempts + 1 ELSE arg

\* opts.maxAttempts ?? 4
EffectiveMax(arg) == IF arg = Undefined THEN MaxAttempts ELSE arg

\* mutant: the attempt before the last counts as the last
IsLast_OneEarly(att, max) == att >= max - 1

\* const isLast = attempt === maxAttempts
IsLast(att, max) == att = max

\* mutant: only the last attempt gives up
GivesUp_LastOnly(att, max, err) == IsLast(att, max)

\* if (isLast || !retryable) ... throw err
GivesUp(att, max, err) == IsLast(att, max) \/ ~isRetryableError(err)

\* what fn may raise: service errors, an authentication error, storage
\* errors with and without "429" in the message, a value that is no Error
RetryThrowables ==
  { ApiError(503), ApiError(429), ApiError(404), AuthError,
    Thrown(TRUE, "StorageError", 0, TRUE),
    Thrown(TRUE, "StorageError", 0, FALSE),
    Thrown(FALSE, "string", 0, TRUE) }

\* the outcome of one call of fn: a value or a thrown error; the model's fn
\* returns the number of the call, so the values of the attempts differ
Returned(v) == [ok |-> TRUE, value |-> v, err |-> NoError]
Raised(err) == [ok |-> FALSE, value |-> 0, err |-> err]
NoOutcome == [ok |-> FALSE, value |-> 0, err |-> NoError]

RetryIdle ==
  /\ targ = Undefined /\ tpc = "off" /\ tattempt = 0
  /\ tcalls = <<>> /\ tslept = <<>> /\ tout = NoOutcome

\* return await fn(): the call of this attempt succeeds
RetryCallReturns ==
  /\ tpc = "try"
  /\ tcalls' = Append(tcalls, Returned(Len(tcalls) + 1))
  /\ tout' = Returned(Len(tcalls) + 1)
  /\ tpc' = "returned"
  /\ UNCHANGED <<targ, tattempt, tslept>>

\* the call of this attempt raises: give up, or sleep before the next one
RetryCallRaises ==
  /\ tpc = "try"
  /\ \E err \in RetryThrowables :
       /\ tcalls' = Append(tcalls, Raised(err))
       /\ IF GivesUp(tattempt, EffectiveMax(targ), err)
            THEN /\ tout' = Raised(err) /\ tpc' = "raised"
                 /\ UNCHANGED tslept
            ELSE /\ tslept' = Append(tslept, DelayAfter(tattempt))
                 /\ tpc' = "sleep"
                 /\ UNCHANGED tout
  /\ UNCHANGED <<targ, tattempt>>

\* the sleep is over: attempt++ and the loop test; after the loop,
\* throw new Error('Retry loop exhausted')
RetryWake ==
  /\ tpc = "sleep"
  /\ tattempt' = tattempt + 1
  /\ IF tattempt + 1 <= EffectiveMax(targ)
       THEN tpc' = "try" /\ UNCHANGED tout
       ELSE tpc' = "raised" /\ tout' = Raised(Thrown(TRUE, "Error", 0, FALSE))
  /\ UNCHANGED <<targ, tcalls, tslept>>

\* mutant: the tracker entry is written before the checksums
Steps_MarkBeforeChecksums ==
  <<"meta", "transcript", "audio", "complete", "checksums">>

\* mutant: the manifest is written before the audio is fetched
Steps_ChecksumsBeforeAudio ==
  <<"meta", "transcript", "checksums", "audio", "complete">>

\* the statements of downloadRecording, in program order
Steps == <<"meta", "transcript", "audio", "checksums", "complete">>

StepAfter(s) ==
  LET k == CHOOSE j \in DOMAIN Steps : Steps[j] = s IN
  IF k = Len(Steps) THEN "done" ELSE Steps[k + 1]

\* if (recording.hasTranscript) { ... }: the block is skipped otherwise
Enter(id, s) ==
  IF s = "transcript" /\ ~Recording(id).hasTranscript THEN StepAfter(s) ELSE s

rvars == <<remote, stateFile, disk, dataset, now, rpc, kind, opts, tracker,
           startFile, dsStart, dsOpen, skipped, ipc, attempt, hasTx, hasAu, faultsOf,
           faults, persistCalls, phaseFail, runErr, result>>

\* the variables an item step leaves alone unless it says otherwise
envvars == <<avars, tvars, xvars, alive, remote, stateFile, now, rpc, kind, opts,
             startFile, dsStart, dsOpen, skipped, persistCalls, phaseFail, runErr,
             result>>

\* statement s of item p has finished: go on, or return from the processor
Proceed(p, s) ==
  LET n == Enter(items[p], StepAfter(s)) IN
  /\ ipc' = [ipc EXCEPT ![p] = n]
  /\ IF n = "done" THEN SettleEffect(p, NoError) ELSE UNCHANGED qvars

\* downloadRecording raised err: retryWithBackoff tries again or gives up
Fail(p, err) ==
  IF GivesUp(attempt[p], EffectiveMax(Undefined), err)
    THEN /\ SettleEffect(p, err)
         /\ ipc' = [ipc EXCEPT ![p] = "done"]
         /\ UNCHANGED <<attempt, hasTx, hasAu>>
    ELSE /\ ipc' = [ipc EXCEPT ![p] = Enter(items[p], Steps[1])]
         /\ attempt' = [attempt EXCEPT ![p] = @ + 1]
         /\ hasTx' = [hasTx EXCEPT ![p] = FALSE]
         /\ hasAu' = [hasAu EXCEPT ![p] = FALSE]
         /\ UNCHANGED qvars

\* a failure is injected while item p is processed
Fault(p, label) ==
  /\ faults < MaxFaults
  /\ faults' = faults + 1
  /\ faultsOf' = [faultsOf EXCEPT ![p] = @ \cup {label}]

Running(p) == alive /\ rpc = "queue" /\ p \in DOMAIN ipc

(***************************************************************************)
(* downloadRecording: the steps of one attempt on the item at position p   *)
(***************************************************************************)
\* a. await store.writeMetadata(recording); meta.json carries imported_at
WriteMetadata(p) ==
  /\ Running(p) /\ ipc[p] = "meta"
  /\ disk' = [disk EXCEPT ![items[p]].meta = now]
  /\ Proceed(p, "meta")
  /\ UNCHANGED <<envvars, dataset, tracker, attempt, hasTx, hasAu, faultsOf,
                 faults>>

WriteMetadataFails(p) ==
  /\ Running(p) /\ ipc[p] = "meta"
  /\ Fault(p, "meta")
  /\ Fail(p, StorageErrorFor(items[p]))
  /\ UNCHANGED <<envvars, disk, dataset, tracker>>

\* b. const transcript = await client.getTranscript(recording.id)
GetTranscript(p) ==
  /\ Running(p) /\ ipc[p] = "transcript"
  /\ ipc' = [ipc EXCEPT ![p] = "transcript.write"]
  /\ UNCHANGED <<qvars, envvars, disk, dataset, tracker, attempt, hasTx,
                 hasAu, faultsOf, faults>>

\* mutant: the transcript block has no catch, the error leaves the attempt
GetTranscriptFails_Propagates(p) ==
  /\ Running(p) /\ ipc[p] = "transcript"
  /\ \E label \in {"tx.perm", "tx.transient", "tx.auth"} : Fault(p, label)
  /\ Fail(p, ApiError(404))
  /\ UNCHANGED <<envvars, disk, dataset, tracker>>

\* getTranscript raises (404, 5xx or an authentication error): the catch
\* of the transcript block logs it and the attempt goes on
GetTranscriptFails(p) ==
  /\ Running(p) /\ ipc[p] = "transcript"
  /\ \E label \in {"tx.perm", "tx.transient", "tx.auth"} : Fault(p, label)
  /\ Proceed(p, "transcript")
  /\ UNCHANGED <<envvars, disk, dataset, tracker, attempt, hasTx, hasAu>>

\* await store.writeTranscript(...); the format files are one unit here
WriteTranscript(p) ==
  /\ Running(p) /\ ipc[p] = "transcript.write"
  /\ disk' = [disk EXCEPT ![items[p]].tx = 1]
  /\ IF opts.includeDataset
       THEN /\ ipc' = [ipc EXCEPT ![p] = "transcript.append"]
            /\ UNCHANGED <<qvars, hasTx>>
       ELSE /\ hasTx' = [hasTx EXCEPT ![p] = TRUE]
            /\ Proceed(p, "transcript")
  /\ UNCHANGED <<envvars, dataset, tracker, attempt, hasAu, faultsOf, faults>>

WriteTranscriptFails(p) ==
  /\ Running(p) /\ ipc[p] = "transcript.write"
  /\ Fault(p, "tx.write")
  /\ Proceed(p, "transcript")
  /\ UNCHANGED <<envvars, disk, dataset, tracker, attempt, hasTx, hasAu>>

\* if (dataset) await dataset.append(...); hasTranscript = true
DatasetAppend(p) ==
  /\ Running(p) /\ ipc[p] = "transcript.append"
  /\ dataset' = Append(dataset, items[p])
  /\ hasTx' = [hasTx EXCEPT ![p] = TRUE]
  /\ Proceed(p, "transcript")
  /\ UNCHANGED <<envvars, disk, tracker, attempt, hasAu, faultsOf, faults>>

DatasetAppendFails(p) ==
  /\ Running(p) /\ ipc[p] = "transcript.append"
  /\ Fault(p, "append")
  /\ Proceed(p, "transcript")
  /\ UNCHANGED <<envvars, disk, dataset, tracker, attempt, hasTx, hasAu>>

\* c. getAudioDownloadUrl gives a URL and writeAudioFromUrl returns true
AudioWritten(p) ==
  /\ Running(p) /\ ipc[p] = "audio"
  /\ remote[items[p]].hasAudioUrl
  /\ disk' = [disk EXCEPT ![items[p]].audio = 1]
  /\ hasAu' = [hasAu EXCEPT ![p] = TRUE]
  /\ Proceed(p, "audio")
  /\ UNCHANGED <<envvars, dataset, tracker, attempt, hasTx, faultsOf, faults>>

\* the service has no audio URL for the recording
AudioNone(p) ==
  /\ Running(p) /\ ipc[p] = "audio"
  /\ ~remote[items[p]].hasAudioUrl
  /\ Proceed(p, "audio")
  /\ UNCHANGED <<envvars, disk, dataset, tracker, attempt, hasTx, hasAu,
                 faultsOf, faults>>

\* the URL request is rejected (getAudioDownloadUrl catches everything and
\* returns null), or the download fails (writeAudioFromUrl returns false)
AudioFails(p) ==
  /\ Running(p) /\ ipc[p] = "audio"
  /\ \E label \in {"audio.url.auth", "audio.download"} : Fault(p, label)
  /\ Proceed(p, "audio")
  /\ UNCHANGED <<envvars, disk, dataset, tracker, attempt, hasTx, hasAu>>

\* d. await store.writeChecksums(recording)
WriteChecksums(p) ==
  /\ Running(p) /\ ipc[p] = "checksums"
  /\ disk' = [disk EXCEPT ![items[p]] = writeChecksumManifest(@)]
  /\ Proceed(p, "checksums")
  /\ UNCHANGED <<envvars, dataset, tracker, attempt, hasTx, hasAu, faultsOf,
                 faults>>

WriteChecksumsFails(p) ==
  /\ Running(p) /\ ipc[p] = "checksums"
  /\ Fault(p, "checksums")
  /\ Fail(p, StorageErrorFor(items[p]))
  /\ UNCHANGED <<envvars, disk, dataset, tracker>>

\* e. tracker.markComplete(...)
MarkComplete(p) ==
  /\ Running(p) /\ ipc[p] = "complete"
  /\ tracker' = markComplete(tracker, items[p], hasAu[p], hasTx[p],
                             computeContentHash(Recording(items[p])))
  /\ Proceed(p, "complete")
  /\ UNCHANGED <<envvars, disk, dataset, attempt, hasTx, hasAu, faultsOf,
                 faults>>

(***************************************************************************)
(* SyncEngine.run                                                          *)
(***************************************************************************)
NoResult == [attempted |-> -1, succeeded |-> -1, failed |-> -1, skipped |-> -1]

\* mutant: the client does not stop at the limit
listRecordings_NoLimit(since, limit) ==
  SelectSeq(ListOrder,
            LAMBDA id : ~(since # Undefined /\ RecordedAt(id) < since))

\* mutant: the client does not filter by since
listRecordings_NoSince(since, limit) ==
  IF limit > 0 /\ Len(ListOrder) > limit
    THEN SubSeq(ListOrder, 1, limit) ELSE ListOrder

\* client.listRecordings({since, limit}): the since filter, then the limit
listRecordings(since, limit) ==
  LET f == SelectSeq(ListOrder,
             LAMBDA id : ~(since # Undefined /\ RecordedAt(id) < since)) IN
  IF limit > 0 /\ Len(f) > limit THEN SubSeq(f, 1, limit) ELSE f

\* mutant: the mode is not looked at
SkipIt_AnyMode(rec) == ~needsDownload(tracker, rec)

\* if (mode === 'sync' && !tracker.needsDownload(recording))
SkipIt(rec) == opts.mode = "sync" /\ ~needsDownload(tracker, rec)

\* 4. the collection loop over the listed recordings ys, from index k on
RECURSIVE Collect(_, _, _, _)
Collect(ys, k, toProcess, skip) ==
  IF k > Len(ys) THEN <<toProcess, skip>>
  ELSE
    LET skipIt == SkipIt(Recording(ys[k]))
        tp == IF skipIt THEN toProcess ELSE Append(toProcess, ys[k])
        sk == IF skipIt THEN Append(skip, ys[k]) ELSE skip
    IN IF opts.limit > 0 /\ Len(tp) >= opts.limit
         THEN <<tp, sk>>
         ELSE Collect(ys, k + 1, tp, sk)

\* mutant: the dry-run test is missing
AfterListing_NoDryRun == "open"

\* 5. if (opts.dryRun) return ...
AfterListing == IF opts.dryRun THEN "returned" ELSE "open"

\* mutant: the sync is marked successful whatever failed
ShouldMarkSuccessful_Always == TRUE

\* 8. if (errors.length === 0)
ShouldMarkSuccessful == Len(failed) = 0

QueueOff ==
  /\ items' = <<>> /\ concurrency' = 1 /\ index' = 0 /\ active' = 0
  /\ resolve' = FALSE /\ qpc' = "off"
  /\ task' = <<>> /\ invoked' = <<>> /\ thrown' = <<>>
  /\ succeeded' = <<>> /\ failed' = <<>>

\* a new operation starts once the last one has returned or raised
OpStart(k, o) ==
  /\ now < MaxOps
  /\ alive /\ rpc \in {"idle", "returned", "raised"}
  /\ now' = now + 1
  /\ kind' = k /\ opts' = o
  /\ tracker' = EmptySyncState /\ startFile' = stateFile
  /\ dsStart' = Len(dataset)
  /\ dsOpen' = FALSE /\ skipped' = <<>>
  /\ ipc' = <<>> /\ attempt' = <<>> /\ hasTx' = <<>> /\ hasAu' = <<>>
  /\ faultsOf' = <<>>
  /\ persistCalls' = 0 /\ phaseFail' = "none" /\ runErr' = NoError
  /\ result' = NoResult
  /\ QueueOff
  /\ UNCHANGED <<avars, tvars, xvars, alive, remote, stateFile, disk, dataset, faults>>

NoOpts ==
  [mode |-> "none", dryRun |-> FALSE, includeDataset |-> FALSE,
   concurrency |-> 1, limit |-> 0, since |-> Undefined]

\* the calls of run the model makes: mode and SyncOptions
RunOptions ==
  { [mode |-> "sync", dryRun |-> FALSE, includeDataset |-> TRUE,
     concurrency |-> 2, limit |-> 0, since |-> Undefined],
    [mode |-> "backfill", dryRun |-> FALSE, includeDataset |-> FALSE,
     concurrency |-> 1, limit |-> 0, since |-> Undefined],
    [mode |-> "sync", dryRun |-> TRUE, includeDataset |-> TRUE,
     concurrency |-> 2, limit |-> 0, since |-> Undefined],
    [mode |-> "backfill", dryRun |-> FALSE, includeDataset |-> TRUE,
     concurrency |-> 3, limit |-> 2, since |-> Undefined] }

\* engine.run(client, opts, mode) is called
RunStart ==
  /\ \E o \in RunOptions : OpStart("run", o)
  /\ rpc' = "auth"

\* the operation raises err in the given phase
OpRaise(phase, err) ==
  /\ faults < MaxFaults
  /\ faults' = faults + 1
  /\ phaseFail' = phase /\ runErr' = err /\ rpc' = "raised"

\* 1. client.isAuthenticated() is true
AuthCheck ==
  /\ alive /\ rpc = "auth"
  /\ rpc' = "load"
  /\ UNCHANGED <<qvars, avars, tvars, xvars, alive, remote, stateFile, disk, dataset, now,
                 kind, opts, tracker, startFile, dsStart, dsOpen, skipped, ipc, attempt,
                 hasTx, hasAu, faultsOf, faults, persistCalls, phaseFail,
                 runErr, result>>

\* mutant: the tracker state is loaded before the check raises
AuthCheckFails_LoadsFirst ==
  /\ alive /\ rpc = "auth"
  /\ OpRaise("auth", AuthError)
  /\ tracker' = load(tracker)
  /\ UNCHANGED <<qvars, avars, tvars, xvars, alive, remote, stateFile, disk, dataset,
                 now, kind, opts, startFile, dsStart, dsOpen, skipped, ipc, attempt,
                 hasTx, hasAu, faultsOf, persistCalls, result>>

\* 1. client.isAuthenticated() is false: throw new AuthError(...)
AuthCheckFails ==
  /\ alive /\ rpc = "auth"
  /\ OpRaise("auth", AuthError)
  /\ UNCHANGED <<qvars, avars, tvars, xvars, alive, remote, stateFile, disk, dataset, now,
                 kind, opts, tracker, startFile, dsStart, dsOpen, skipped, ipc, attempt,
                 hasTx, hasAu, faultsOf, persistCalls, result>>

\* 2. await tracker.load(opts.outDir)
Load ==
  /\ alive /\ rpc = "load"
  /\ tracker' = load(tracker)
  /\ rpc' = "list"
  /\ UNCHANGED <<qvars, avars, tvars, xvars, alive, remote, stateFile, disk, dataset, now,
                 kind, opts, startFile, dsStart, dsOpen, skipped, ipc, attempt, hasTx,
                 hasAu, faultsOf, faults, persistCalls, phaseFail, runErr,
                 result>>

\* 3.-5. the listing is consumed; a dry run returns here
List ==
  /\ alive /\ rpc = "list"
  /\ LET since == IF opts.since # Undefined THEN opts.since
                  ELSE IF opts.mode = "sync" THEN getSince(tracker)
                  ELSE Undefined
         c == Collect(listRecordings(since, opts.limit), 1, <<>>, <<>>)
     IN /\ items' = c[1]
        /\ skipped' = c[2]
        /\ rpc' = AfterListing
        /\ result' = IF AfterListing = "returned"
                       THEN [attempted |-> 0, succeeded |-> 0, failed |-> 0,
                             skipped |-> Len(c[2])]
                       ELSE result
  /\ UNCHANGED <<concurrency, index, active, resolve, qpc, task, invoked,
                 thrown, succeeded, failed>>
  /\ UNCHANGED <<avars, tvars, xvars, alive, remote, stateFile, disk, dataset, now, kind,
                 opts, tracker, startFile, dsStart, dsOpen, ipc, attempt, hasTx, hasAu,
                 faultsOf, faults, persistCalls, phaseFail, runErr>>

\* a request of the listing raises
ListFails ==
  /\ alive /\ rpc = "list"
  /\ \E err \in {AuthError, ApiError(500)} : OpRaise("list", err)
  /\ UNCHANGED <<qvars, avars, tvars, xvars, alive, remote, stateFile, disk, dataset, now,
                 kind, opts, tracker, startFile, dsStart, dsOpen, skipped, ipc, attempt,
                 hasTx, hasAu, faultsOf, persistCalls, result>>

\* 6.-7. the dataset sink is opened if asked for; processQueue is called
Open ==
  /\ alive /\ rpc = "open"
  /\ dsOpen' = opts.includeDataset
  /\ QueueCall(items, opts.concurrency)
  /\ ipc' = [p \in 1..Len(items) |-> "idle"]
  /\ attempt' = [p \in 1..Len(items) |-> 0]
  /\ hasTx' = [p \in 1..Len(items) |-> FALSE]
  /\ hasAu' = [p \in 1..Len(items) |-> FALSE]
  /\ faultsOf' = [p \in 1..Len(items) |-> {}]
  /\ rpc' = "queue"
  /\ UNCHANGED <<avars, tvars, xvars, alive, remote, stateFile, disk, dataset, now, kind,
                 opts, tracker, startFile, dsStart, skipped, faults, persistCalls,
                 phaseFail, runErr, result>>

\* 6. dataset.open() raises
OpenFails ==
  /\ alive /\ rpc = "open" /\ opts.includeDataset
  /\ OpRaise("open", Thrown(TRUE, "Error", 0, FALSE))
  /\ UNCHANGED <<qvars, avars, tvars, xvars, alive, remote, stateFile, disk, dataset, now,
                 kind, opts, tracker, startFile, dsStart, dsOpen, skipped, ipc, attempt,
                 hasTx, hasAu, faultsOf, persistCalls, result>>

\* tick() inside the run: each started item enters its first attempt
RunTick ==
  /\ alive /\ rpc = "queue"
  /\ Tick
  /\ ipc' = [p \in DOMAIN ipc |->
               IF task[p] = "idle" /\ task'[p] = "running"
                 THEN Enter(items[p], Steps[1]) ELSE ipc[p]]
  /\ attempt' = [p \in DOMAIN attempt |->
               IF task[p] = "idle" /\ task'[p] = "running" THEN 1 ELSE attempt[p]]
  /\ UNCHANGED <<envvars, disk, dataset, tracker, hasTx, hasAu, faultsOf,
                 faults>>

RunDrain ==
  /\ alive /\ rpc = "queue"
  /\ Drain
  /\ UNCHANGED <<avars, tvars, xvars, alive, rvars>>

\* 8.-9. markSuccessfulSync if nothing failed; persist sets lastAttemptAt
\* and starts to write the state file
Finalize ==
  /\ alive /\ rpc = "queue" /\ qpc = "returned"
  /\ tracker' = [(IF ShouldMarkSuccessful THEN markSuccessfulSync(tracker)
                  ELSE tracker) EXCEPT !.lastAttemptAt = now]
  /\ persistCalls' = persistCalls + 1
  /\ rpc' = "persist"
  /\ UNCHANGED <<qvars, avars, tvars, xvars, alive, remote, stateFile, disk, dataset, now,
                 kind, opts, startFile, dsStart, dsOpen, skipped, ipc, attempt, hasTx,
                 hasAu, faultsOf, faults, phaseFail, runErr, result>>

\* writeFileAtomic(syncStatePath, JSON.stringify(state)): the rename
Persist ==
  /\ alive /\ rpc = "persist"
  /\ stateFile' = ValidFile(tracker)
  /\ rpc' = IF kind = "run" THEN "close" ELSE "returned"
  /\ UNCHANGED <<qvars, avars, tvars, xvars, alive, remote, disk, dataset, now, kind, opts,
                 tracker, startFile, dsStart, dsOpen, skipped, ipc, attempt, hasTx,
                 hasAu, faultsOf, faults, persistCalls, phaseFail, runErr,
                 result>>

\* writeFileAtomic raises a StorageError
PersistFails ==
  /\ alive /\ rpc = "persist"
  /\ OpRaise("persist", Thrown(TRUE, "StorageError", 0, FALSE))
  /\ UNCHANGED <<qvars, avars, tvars, xvars, alive, remote, stateFile, disk, dataset, now,
                 kind, opts, tracker, startFile, dsStart, dsOpen, skipped, ipc, attempt,
                 hasTx, hasAu, faultsOf, persistCalls, result>>

\* if (dataset) await dataset.close(); return result
Return ==
  /\ alive /\ rpc = "close"
  /\ dsOpen' = FALSE
  /\ result' = [attempted |-> Len(items), succeeded |-> Len(succeeded),
                failed |-> Len(failed), skipped |-> Len(skipped)]
  /\ rpc' = "returned"
  /\ UNCHANGED <<qvars, avars, tvars, xvars, alive, remote, stateFile, disk, dataset, now,
                 kind, opts, tracker, startFile, dsStart, skipped, ipc, attempt, hasTx,
                 hasAu, faultsOf, faults, persistCalls, phaseFail, runErr>>

(***************************************************************************)
(* PlaudExtractor.verify                                                   *)
(***************************************************************************)
VerifyStart ==
  /\ OpStart("verify", NoOpts)
  /\ rpc' = "scan"

\* load, then verifyChecksums over every recorded id; persist is called
VerifyScan ==
  /\ alive /\ rpc = "scan"
  /\ tracker' =
       [load(tracker) EXCEPT
          !.recordings = [id \in Ids |->
             IF Len(verifyChecksums(disk[id])) = 0
               THEN markVerified(load(tracker), id).recordings[id]
               ELSE load(tracker).recordings[id]],
          !.lastAttemptAt = now]
  /\ persistCalls' = persistCalls + 1
  /\ rpc' = "persist"
  /\ UNCHANGED <<qvars, avars, tvars, xvars, alive, remote, stateFile, disk, dataset, now,
                 kind, opts, startFile, dsStart, dsOpen, skipped, ipc, attempt, hasTx,
                 hasAu, faultsOf, faults, phaseFail, runErr, result>>

\* the process is killed in the middle of an operation
Kill ==
  /\ alive /\ rpc \notin {"idle", "returned", "raised"}
  /\ alive' = FALSE
  /\ UNCHANGED <<qvars, avars, tvars, xvars, rvars>>

(***************************************************************************)
(* writeChecksumManifest / verifyChecksums on one directory                *)
(***************************************************************************)
\* distinct contents a file of the directory may take
MaxContent == 2

\* ck.dir is the directory, ck.prev the directory as the last call found
\* it, ck.op the last thing that happened, ck.out what verifyChecksums
\* returned
CkState(d, prev, op, out) == [dir |-> d, prev |-> prev, op |-> op, out |-> out]

CkIdle == ck = CkState(EmptyDir, EmptyDir, "none", <<>>)

\* writeChecksumManifest(dir, id) returns
CkWrite ==
  ck' = CkState(writeChecksumManifest(ck.dir), ck.dir, "write", <<>>)

\* verifyChecksums(dir) returns; it only reads
CkVerify ==
  ck' = CkState(ck.dir, ck.dir, "verify", verifyChecksums(ck.dir))

\* between two calls an entry of the directory is created, changed, deleted
\* or replaced by a subdirectory
CkAlter ==
  \E f \in FileNames : \E c \in {0, NotRegular} \cup (1..MaxContent) :
    /\ c # ck.dir[f]
    /\ ck' = CkState([ck.dir EXCEPT ![f] = c], ck.dir, "alter", <<>>)

\* between two calls checksums.json is deleted
CkDropManifest ==
  /\ ck.dir.manifest.exists
  /\ ck' = CkState([ck.dir EXCEPT !.manifest = NoManifest], ck.dir, "alter",
                   <<>>)

(***************************************************************************)
(* DatasetWriter: the append-only JSON-Lines sink                          *)
(***************************************************************************)
\* bytes of one line, the newline included
LineLen == 2
\* append calls in one behaviour
MaxLines == 3
\* open calls in one behaviour (runs and re-exports)
MaxSessions == 2

\* JSON.stringify(entry) + '\n' of the n-th append call, byte by byte; the
\* last byte is the newline
Line(n) == [k \in 1..LineLen |-> [n |-> n, k |-> k]]

\* mutant: the file is opened for writing, not for appending
OpenFlags_Truncate == "w"

\* createWriteStream(filePath, { flags: 'a', encoding: 'utf8' })
OpenFlags == "a"

\* what opening with the given flags does to the content of the file
OpenedContent(flags, bytes) == IF flags = "a" THEN bytes ELSE <<>>

\* mutant: the stream writes from the chunk buffered last
NextChunk_Last(buf) == Len(buf)

\* the write stream hands its buffered chunks to the file in the order of
\* the write calls, one at a time
NextChunk(buf) == 1

\* seq without its i-th element
RemoveAt(seq, i) == SubSeq(seq, 1, i - 1) \o SubSeq(seq, i + 1, Len(seq))

\* file:    the bytes of datasets/plaud_transcripts.jsonl
\* stream:  "none" (this.stream is null) | "open" | "errored"
\* buf:     the lines handed to stream.write and not yet fully written
\* written: per line, how many of its bytes are in the file
\* calls:   append calls made; acked / nacked: those that returned / raised
\* session: open calls made; opened: length of the file at the last open
\* peak:    the most appends that were in flight together
SinkIdle ==
  sink = [file |-> <<>>, stream |-> "none", buf |-> <<>>,
          written |-> [n \in 1..MaxLines |-> 0], calls |-> 0,
          acked |-> {}, nacked |-> {}, session |-> 0, opened |-> 0,
          peak |-> 0]

\* open(): mkdir, createWriteStream, the stream emits 'open'
SinkOpen ==
  /\ alive /\ sink.stream = "none" /\ sink.session < MaxSessions
  /\ sink' = [sink EXCEPT !.stream = "open",
                          !.file = OpenedContent(OpenFlags, @),
                          !.opened = Len(OpenedContent(OpenFlags, sink.file)),
                          !.session = @ + 1]
  /\ UNCHANGED alive

\* open(): the stream emits 'error'; open raises and the caller drops the
\* writer
SinkOpenFails ==
  /\ alive /\ sink.stream = "none" /\ sink.session < MaxSessions
  /\ sink' = [sink EXCEPT !.session = @ + 1, !.opened = Len(sink.file)]
  /\ UNCHANGED alive

\* append(): the line is built and handed to stream.write in one piece, with
\* no await before it; the call then waits for the callback
SinkAppend ==
  /\ alive /\ sink.stream = "open" /\ sink.calls < MaxLines
  /\ sink' = [sink EXCEPT !.calls = @ + 1,
                          !.buf = Append(@, sink.calls + 1),
                          !.peak = IF Len(sink.buf) + 1 > @
                                     THEN Len(sink.buf) + 1 ELSE @]
  /\ UNCHANGED alive

\* append() on a stream that has failed: the callback gets the error and
\* append raises
SinkAppendRaises ==
  /\ alive /\ sink.stream = "errored" /\ sink.calls < MaxLines
  /\ sink' = [sink EXCEPT !.calls = @ + 1,
                          !.nacked = @ \cup {sink.calls + 1}]
  /\ UNCHANGED alive

\* one more byte of the chunk being written reaches the file; after its
\* last byte the callback of that write call reports success
SinkFlush ==
  /\ alive /\ sink.stream = "open" /\ sink.buf # <<>>
  /\ LET i == NextChunk(sink.buf)
         n == sink.buf[i]
         k == sink.written[n] + 1
     IN sink' = [sink EXCEPT
                   !.file = Append(@, Line(n)[k]),
                   !.written[n] = k,
                   !.buf = IF k = LineLen THEN RemoveAt(@, i) ELSE @,
                   !.acked = IF k = LineLen THEN @ \cup {n} ELSE @]
  /\ UNCHANGED alive

\* a write to the file fails: the stream is destroyed and the callbacks of
\* all buffered chunks get the error
SinkWriteFails ==
  /\ alive /\ sink.stream = "open" /\ sink.buf # <<>>
  /\ sink' = [sink EXCEPT
                !.stream = "errored", !.buf = <<>>,
                !.nacked = @ \cup {sink.buf[j] : j \in DOMAIN sink.buf}]
  /\ UNCHANGED alive

\* close(): stream.end() once every append has returned; this.stream = null
SinkClose ==
  /\ alive /\ sink.stream \in {"open", "errored"} /\ sink.buf = <<>>
  /\ sink' = [sink EXCEPT !.stream = "none"]
  /\ UNCHANGED alive

\* the process is killed while the stream is open: what is buffered is
\* lost and the appends in flight never return; a later process may open
\* the file again
SinkKill ==
  /\ alive /\ sink.stream = "open"
  /\ sink' = [sink EXCEPT
                !.stream = "none", !.buf = <<>>,
                !.nacked = @ \cup {sink.buf[j] : j \in DOMAIN sink.buf}]
  /\ UNCHANGED alive

(***************************************************************************)
(* PlaudExtractor.runWithReauth: sync() and backfill()                     *)
(***************************************************************************)
\* concurrency: partial.concurrency ?? 3
DefaultConcurrency == 3

\* an optional field of Partial<SyncOptions>: <<>> when absent, <<v>> else
OrElse(field, default) == IF field = <<>> THEN default ELSE field[1]

\* the options a caller of sync() / backfill() may pass
PartialOptions ==
  [dryRun : {<<>>, <<TRUE>>, <<FALSE>>},
   includeDataset : {<<>>, <<TRUE>>, <<FALSE>>},
   concurrency : {<<>>, <<1>>},
   limit : {<<>>, <<2>>}]

NoPartial ==
  [dryRun |-> <<>>, includeDataset |-> <<>>, concurrency |-> <<>>,
   limit |-> <<>>]

\* buildSyncOptions(partial), together with the mode handed to run
buildSyncOptions(partial, mode) ==
  [mode |-> mode,
   dryRun |-> OrElse(partial.dryRun, FALSE),
   includeDataset |-> OrElse(partial.includeDataset, TRUE),
   concurrency |-> OrElse(partial.concurrency, DefaultConcurrency),
   limit |-> OrElse(partial.limit, 0),
   since |-> Undefined]

\* what engine.run may raise
RunThrowables ==
  {AuthError, ApiError(500), Thrown(TRUE, "StorageError", 0, FALSE)}

\* what authenticate() raises when the browser login or the saving of the
\* credentials fails
LoginError == Thrown(TRUE, "Error", 0, FALSE)

\* mutant: every error of the first attempt leads to a second one
ShouldReauth_Always(err) == TRUE

\* if (!(err instanceof AuthError)) throw err
ShouldReauth(err) == err = AuthError

\* pc:     "off" | "build1" | "run1" | "auth" | "build2" | "run2" |
\*         "returned" | "raised"
\* calls:  the invocations of engine.run: the options, and how many
\*         re-authentications preceded the invocation
\* first:  the error the try block raised; second: the error the catch
\*         block raised; at: the step that ended the call
\* auths:  calls of authenticate()
ReauthIdle ==
  reauth = [pc |-> "off", mode |-> "none", partial |-> NoPartial,
            calls |-> <<>>, first |-> NoError, second |-> NoError,
            auths |-> 0, at |-> "none", out |-> NoOutcome]

\* buildClient() returns a client and engine.run is invoked with it
ReauthBuild ==
  /\ reauth.pc \in {"build1", "build2"}
  /\ reauth' =
       [reauth EXCEPT
          !.calls = Append(@, [opts |-> buildSyncOptions(reauth.partial,
                                                         reauth.mode),
                               after |-> reauth.auths]),
          !.pc = IF reauth.pc = "build1" THEN "run1" ELSE "run2"]

\* the try block raised err: rethrow it, or go on to re-authenticate
Caught(err, step) ==
  IF ShouldReauth(err)
    THEN reauth' = [reauth EXCEPT !.first = err, !.pc = "auth"]
    ELSE reauth' = [reauth EXCEPT !.first = err, !.pc = "raised",
                                  !.at = step, !.out = Raised(err)]

\* the catch block raised err: the call raises it
Rethrown(err, step) ==
  reauth' = [reauth EXCEPT !.second = err, !.pc = "raised", !.at = step,
                           !.out = Raised(err)]

\* buildClient() finds no credentials, or expired ones
ReauthBuildRaises ==
  \/ reauth.pc = "build1" /\ Caught(AuthError, "build1")
  \/ reauth.pc = "build2" /\ Rethrown(AuthError, "build2")

\* engine.run returns its SyncResult: the call returns it
ReauthRunReturns ==
  /\ reauth.pc \in {"run1", "run2"}
  /\ reauth' = [reauth EXCEPT !.pc = "returned", !.at = reauth.pc,
                              !.out = Returned(Len(reauth.calls))]

\* engine.run raises
ReauthRunRaises ==
  \E err \in RunThrowables :
    \/ reauth.pc = "run1" /\ Caught(err, "run1")
    \/ reauth.pc = "run2" /\ Rethrown(err, "run2")

\* await this.authenticate() returns
ReauthAuthenticate ==
  /\ reauth.pc = "auth"
  /\ reauth' = [reauth EXCEPT !.auths = @ + 1, !.pc = "build2"]

\* await this.authenticate() raises
ReauthAuthenticateRaises ==
  /\ reauth.pc = "auth"
  /\ reauth' = [reauth EXCEPT !.auths = @ + 1, !.second = LoginError,
                              !.pc = "raised", !.at = "auth",
                              !.out = Raised(LoginError)]

(***************************************************************************)
(* plaud_sync / plaud_backfill: the background jobs of the MCP server      *)
(***************************************************************************)
\* jobs started in one behaviour
MaxJobs == 2

\* the job file <jobId>.json: the status it records and, with it, the
\* result or the error; "corrupt" is a file left truncated by a failed
\* fs.writeFile, "none" no file
JobFile(status, outcome) == [status |-> status, outcome |-> outcome]
NoJobFile == JobFile("none", NoOutcome)

\* the error fs.mkdir / fs.writeFile raise in writeJob
WriteError == Thrown(TRUE, "Error", 0, FALSE)

\* what extractor.sync() / extractor.backfill() may raise
JobThrowables == {AuthError, ApiError(500)}

\* mutant: the catch block also records completed
FinalStatus_AlwaysCompleted(outcome) == "completed"

\* try: status 'completed' with the result; catch: status 'failed' with
\* the error
FinalStatus(outcome) == IF outcome.ok THEN "completed" ELSE "failed"

\* pc:       "off" | "start" | "spawn" | "run" | "try.write" |
\*           "catch.write" | "end" | "lost" | "toolraised"
\* file:     the job file; hist: the statuses it has recorded, in order
\* returned: the tool call has returned the jobId
\* settle:   how the sync or backfill call settled
\* caught:   the error the catch block holds
\* wfail:    calls of writeJob that raised
JobOff ==
  [pc |-> "off", type |-> "none", file |-> NoJobFile, hist |-> <<>>,
   returned |-> FALSE, settle |-> NoOutcome, caught |-> NoError,
   wfail |-> 0]

JobIdle == job = [j \in 1..MaxJobs |-> JobOff]

\* writeJob(outDir, state) succeeds: the file records the status
Written(b, status, outcome) ==
  [b EXCEPT !.file = JobFile(status, outcome), !.hist = Append(@, status)]

\* writeJob raises: mkdir or the open failed and the file is as it was, or
\* the write failed after the file had been truncated
WriteFailed(b, truncated) ==
  IF truncated
    THEN [b EXCEPT !.file = JobFile("corrupt", NoOutcome),
                   !.hist = Append(@, "corrupt"), !.wfail = @ + 1]
    ELSE [b EXCEPT !.wfail = @ + 1]

\* the handler is called: newJobId, job = {status: 'running', ...}
JobStart(j) ==
  /\ job[j].pc = "off"
  /\ \E type \in {"sync", "backfill"} :
       job' = [job EXCEPT ![j] = [@ EXCEPT !.pc = "start", !.type = type]]

\* await writeJob(outDir, job)
JobWriteRunning(j) ==
  /\ job[j].pc = "start"
  /\ job' = [job EXCEPT
               ![j] = [Written(@, "running", NoOutcome) EXCEPT !.pc = "spawn"]]

\* await writeJob(outDir, job) raises: the tool call raises, no job runs
JobWriteRunningFails(j) ==
  /\ job[j].pc = "start"
  /\ \E truncated \in BOOLEAN :
       job' = [job EXCEPT
                 ![j] = [WriteFailed(@, truncated) EXCEPT !.pc = "toolraised"]]

\* runAsync(...) starts the sync or backfill call; the handler returns the
\* jobId
JobReturn(j) ==
  /\ job[j].pc = "spawn"
  /\ job' = [job EXCEPT ![j] = [@ EXCEPT !.pc = "run", !.returned = TRUE]]

\* const result = await extractor.sync(...) returns
JobCallResolves(j) ==
  /\ job[j].pc = "run"
  /\ job' = [job EXCEPT
               ![j] = [@ EXCEPT !.pc = "try.write", !.settle = Returned(j)]]

\* extractor.sync(...) raises: the catch block
JobCallRejects(j) ==
  /\ job[j].pc = "run"
  /\ \E err \in JobThrowables :
       job' = [job EXCEPT
                 ![j] = [@ EXCEPT !.pc = "catch.write", !.settle = Raised(err),
                                  !.caught = err]]

\* try: await writeJob({...job, status: 'completed', result})
JobWriteCompleted(j) ==
  /\ job[j].pc = "try.write"
  /\ job' = [job EXCEPT
               ![j] = [Written(@, FinalStatus(job[j].settle), job[j].settle)
                         EXCEPT !.pc = "end"]]

\* that writeJob raises: the catch block gets the write error
JobWriteCompletedFails(j) ==
  /\ job[j].pc = "try.write"
  /\ \E truncated \in BOOLEAN :
       job' = [job EXCEPT
                 ![j] = [WriteFailed(@, truncated) EXCEPT
                           !.pc = "catch.write", !.caught = WriteError]]

\* catch: await writeJob({...job, status: 'failed', error: String(err)})
JobWriteFailed(j) ==
  /\ job[j].pc = "catch.write"
  /\ job' = [job EXCEPT
               ![j] = [Written(@, FinalStatus(Raised(job[j].caught)),
                               Raised(job[j].caught))
                         EXCEPT !.pc = "end"]]

\* that writeJob raises too: runAsync logs 'Unhandled job error'
JobWriteFailedFails(j) ==
  /\ job[j].pc = "catch.write"
  /\ \E truncated \in BOOLEAN :
       job' = [job EXCEPT
                 ![j] = [WriteFailed(@, truncated) EXCEPT !.pc = "lost"]]

(***************************************************************************)
(* PlaudApiClient.listRecordings: offset paging over the service's list,   *)
(* and the run that processes what it yields                               *)
(***************************************************************************)
\* recordings per page (const limit = 50 in the client), recordings the
\* service lists at the start, recordings uploaded while the list is read
PageSize == 2
MaxListed == 3
MaxUploads == 1

\* pc:        "off" | "request" | "page" | "done" | "queue"
\* server:    the service's list, sorted by start_time, newest first
\* skip:      the offset of the next request
\* page, pos: the page received and the next entry of it
\* toProcess: the recordings yielded, which run collects in toProcess
\* uploads:   recordings uploaded since the listing started
\* marks:     per recording id: calls of tracker.markComplete in this run
PgOff ==
  [pc |-> "off", server |-> <<>>, skip |-> 0, page |-> <<>>, pos |-> 0,
   toProcess |-> <<>>, uploads |-> 0, marks |-> <<>>]

PgIdle == pg = PgOff

\* what GET /file/simple/web?skip=..&limit=.. answers
PageOf(server, skip) ==
  SubSeq(server, skip + 1,
         IF skip + PageSize < Len(server) THEN skip + PageSize
         ELSE Len(server))

\* const raw = await this.http.get(url); if (items.length === 0) break
PgRequest ==
  /\ pg.pc = "request"
  /\ LET got == PageOf(pg.server, pg.skip) IN
       pg' = IF got = <<>> THEN [pg EXCEPT !.pc = "done"]
             ELSE [pg EXCEPT !.pc = "page", !.page = got, !.pos = 1]

\* yield parsed; run pushes the recording to toProcess (no since, no limit,
\* nothing recorded in the tracker)
PgYield ==
  /\ pg.pc = "page" /\ pg.pos <= Len(pg.page)
  /\ pg' = [pg EXCEPT !.toProcess = Append(@, pg.page[pg.pos]),
                      !.pos = @ + 1]

\* if (items.length < limit) break; skip += items.length
PgPageEnd ==
  /\ pg.pc = "page" /\ pg.pos > Len(pg.page)
  /\ pg' = IF Len(pg.page) < PageSize
             THEN [pg EXCEPT !.pc = "done"]
             ELSE [pg EXCEPT !.pc = "request", !.skip = @ + Len(pg.page)]

\* the device uploads a new recording while the list is being read: it is
\* the newest, so the service lists it first
PgUpload ==
  /\ pg.pc \in {"request", "page"} /\ pg.uploads < MaxUploads
  /\ pg' = [pg EXCEPT !.server = <<Len(pg.server) + 1>> \o @,
                      !.uploads = @ + 1]

\* processQueue(toProcess, processor, opts.concurrency)
PgQueue ==
  /\ pg.pc = "done"
  /\ \E n \in 1..MaxConc : QueueCall(pg.toProcess, n)
  /\ pg' = [pg EXCEPT !.pc = "queue"]

\* downloadRecording ran through to markComplete and the processor returned
PgItemSucceeds(p) ==
  /\ pg.pc = "queue"
  /\ SettleEffect(p, NoError)
  /\ pg' = [pg EXCEPT !.marks[items[p]] = @ + 1]

\* downloadRecording raised before markComplete and was not retried
PgItemFails(p) ==
  /\ pg.pc = "queue"
  /\ SettleEffect(p, Thrown(TRUE, "StorageError", 0, FALSE))
  /\ UNCHANGED pg

\* every component that is not being exercised is at rest
OthersIdle == CkIdle /\ SinkIdle /\ ReauthIdle /\ JobIdle /\ PgIdle

vars == <<qvars, avars, tvars, xvars, alive, rvars>>

RunIdle ==
  /\ remote = [id \in Ids |->
                 [recordedAt |-> 0, updatedAt |-> 0,
                  hasTranscript |-> FALSE, hasAudioUrl |-> FALSE]]
  /\ stateFile = NoFile
  /\ disk = [id \in Ids |-> EmptyDir]
  /\ dataset = <<>>
  /\ now = 0 /\ rpc = "idle" /\ kind = "none" /\ opts = NoOpts
  /\ tracker = EmptySyncState /\ startFile = stateFile /\ dsStart = 0
  /\ dsOpen = FALSE /\ skipped = <<>>
  /\ ipc = <<>> /\ attempt = <<>> /\ hasTx = <<>> /\ hasAu = <<>>
  /\ faultsOf = <<>> /\ faults = 0
  /\ persistCalls = 0 /\ phaseFail = "none" /\ runErr = NoError
  /\ result = NoResult

(***************************************************************************)
(* SpecQueue: one call of processQueue, any list, any limit                *)
(***************************************************************************)
InitQueue ==
  /\ AtomicIdle /\ RunIdle /\ RetryIdle /\ OthersIdle
  /\ \E n \in 0..MaxItems : items = [p \in 1..n |-> p]
  /\ concurrency \in 1..MaxConc
  /\ index = 0 /\ active = 0 /\ resolve = FALSE /\ qpc = "start"
  /\ task = [p \in 1..Len(items) |-> "idle"]
  /\ invoked = [p \in 1..Len(items) |-> 0]
  /\ thrown = [p \in 1..Len(items) |-> NoError]
  /\ succeeded = <<>> /\ failed = <<>>

NextQueue ==
  \/ Tick /\ UNCHANGED <<avars, tvars, xvars, alive, rvars>>
  \/ Drain /\ UNCHANGED <<avars, tvars, xvars, alive, rvars>>
  \/ ProcessorResolves /\ UNCHANGED <<avars, tvars, xvars, alive, rvars>>
  \/ ProcessorRejects /\ UNCHANGED <<avars, tvars, xvars, alive, rvars>>

SpecQueue == InitQueue /\ [][NextQueue]_vars

(***************************************************************************)
(* SpecQueueFair: SpecQueue in which the coordinator keeps running and     *)
(* every started processor eventually settles                              *)
(***************************************************************************)
\* the processor of the item at position p settles, either way
Settles(p) ==
  /\ p \in DOMAIN task
  /\ \E err \in {NoError} \cup Throwables : SettleEffect(p, err)
  /\ UNCHANGED <<avars, tvars, xvars, alive, rvars>>

SpecQueueFair ==
  /\ SpecQueue
  /\ WF_vars(Tick /\ UNCHANGED <<avars, tvars, xvars, alive, rvars>>)
  /\ WF_vars(Drain /\ UNCHANGED <<avars, tvars, xvars, alive, rvars>>)
  /\ \A p \in 1..MaxItems : WF_vars(Settles(p))

(***************************************************************************)
(* SpecQueueHung: SpecQueueFair in which the processor of one item may     *)
(* never settle                                                            *)
(***************************************************************************)
\* the positions whose processor will never settle
Hung == {p \in DOMAIN task : task[p] = "hung"}

\* the promise processor(item) returned for position p stays pending for
\* ever: its continuation in the per-item wrapper never runs
Hangs(p) ==
  /\ task[p] = "running" /\ Hung = {}
  /\ task' = [task EXCEPT ![p] = "hung"]
  /\ UNCHANGED <<items, concurrency, index, active, resolve, qpc, invoked,
                 thrown, succeeded, failed>>

NextQueueHung ==
  \/ Tick /\ UNCHANGED <<avars, tvars, xvars, alive, rvars>>
  \/ Drain /\ UNCHANGED <<avars, tvars, xvars, alive, rvars>>
  \/ ProcessorResolves /\ UNCHANGED <<avars, tvars, xvars, alive, rvars>>
  \/ ProcessorRejects /\ UNCHANGED <<avars, tvars, xvars, alive, rvars>>
  \/ \E p \in DOMAIN task : Hangs(p)
       /\ UNCHANGED <<avars, tvars, xvars, alive, rvars>>

SpecQueueHung ==
  /\ InitQueue /\ [][NextQueueHung]_vars
  /\ WF_vars(Tick /\ UNCHANGED <<avars, tvars, xvars, alive, rvars>>)
  /\ WF_vars(Drain /\ UNCHANGED <<avars, tvars, xvars, alive, rvars>>)
  /\ \A p \in 1..MaxItems : WF_vars(Settles(p))

(***************************************************************************)
(* SpecAtomic: one call of writeFileAtomic or writeStreamAtomic            *)
(***************************************************************************)
InitAtomic ==
  /\ QueueIdle /\ RunIdle /\ RetryIdle /\ OthersIdle
  /\ akind \in {"file", "stream"} /\ apc = "mkdir" /\ alive = TRUE
  /\ prior \in {Absent, File(<<0>>)}
  /\ fsys = [dest |-> prior, tmp |-> Absent]
  /\ \E n \in 0..MaxChunks : data = [k \in 1..n |-> k]
  /\ cause = "none" /\ raised = NoStorageError
  /\ srcPos = 0 /\ srcState = "off" /\ outState = "off"

NextAtomic ==
  \/ AMkdir /\ UNCHANGED <<qvars, rvars, tvars, xvars>>
  \/ AMkdirFails /\ UNCHANGED <<qvars, rvars, tvars, xvars>>
  \/ AWriteOpen /\ UNCHANGED <<qvars, rvars, tvars, xvars>>
  \/ AWriteChunk /\ UNCHANGED <<qvars, rvars, tvars, xvars>>
  \/ AWriteDone /\ UNCHANGED <<qvars, rvars, tvars, xvars>>
  \/ AWriteFails /\ UNCHANGED <<qvars, rvars, tvars, xvars>>
  \/ SrcChunk /\ UNCHANGED <<qvars, rvars, tvars, xvars>>
  \/ SrcEnd /\ UNCHANGED <<qvars, rvars, tvars, xvars>>
  \/ SrcError /\ UNCHANGED <<qvars, rvars, tvars, xvars>>
  \/ OutOpen /\ UNCHANGED <<qvars, rvars, tvars, xvars>>
  \/ OutOpenFails /\ UNCHANGED <<qvars, rvars, tvars, xvars>>
  \/ OutFlush /\ UNCHANGED <<qvars, rvars, tvars, xvars>>
  \/ OutWriteFails /\ UNCHANGED <<qvars, rvars, tvars, xvars>>
  \/ OutFinish /\ UNCHANGED <<qvars, rvars, tvars, xvars>>
  \/ ARename /\ UNCHANGED <<qvars, rvars, tvars, xvars>>
  \/ ARenameFails /\ UNCHANGED <<qvars, rvars, tvars, xvars>>
  \/ ACatchUnlink /\ UNCHANGED <<qvars, rvars, tvars, xvars>>
  \/ AThrow /\ UNCHANGED <<qvars, rvars, tvars, xvars>>
  \/ AKill /\ UNCHANGED <<qvars, rvars, tvars, xvars>>

SpecAtomic == InitAtomic /\ [][NextAtomic]_vars

(***************************************************************************)
(* SpecRetry: one call of retryWithBackoff, any fn, maxAttempts given      *)
(* (at least 1) or left to its default                                     *)
(***************************************************************************)
InitRetry ==
  /\ QueueIdle /\ AtomicIdle /\ RunIdle /\ OthersIdle
  /\ targ \in {Undefined} \cup (1..MaxAttemptsArg)
  /\ tpc = "try" /\ tattempt = 1
  /\ tcalls = <<>> /\ tslept = <<>> /\ tout = NoOutcome

NextRetry ==
  \/ RetryCallReturns /\ UNCHANGED <<qvars, avars, alive, rvars, xvars>>
  \/ RetryCallRaises /\ UNCHANGED <<qvars, avars, alive, rvars, xvars>>
  \/ RetryWake /\ UNCHANGED <<qvars, avars, alive, rvars, xvars>>

SpecRetry == InitRetry /\ [][NextRetry]_vars

(***************************************************************************)
(* SpecList: steps 2 to 5 of run over any state file: the tracker is       *)
(* loaded and the listing is split into the work list and skipped          *)
(***************************************************************************)
\* the entries a state file may hold for an id: none, or one that passes
\* RecordingStateSchema, whose fingerprint is the current one, an older one
\* or missing (contentHash is optional)
FileEntries(id) ==
  {NoState} \cup
  { [present |-> TRUE, contentHash |-> h,
     downloadedAt |-> d, hasAudio |-> FALSE, hasTranscript |-> t,
     verified |-> FALSE, verifiedAt |-> 0] :
       h \in {<<id, 0, remote[id].hasTranscript>>,
              <<id, 1, remote[id].hasTranscript>>, <<>>},
       d \in {0, 1}, t \in BOOLEAN }

\* the state file run may find: none, or one of the three forms; a file
\* that is not valid holds entries for the first recording only
FileForms == {"none", "valid", "invalid", "unparsable"}

\* the calls of run made in SpecList
ListOptions ==
  { [mode |-> m, dryRun |-> FALSE, includeDataset |-> FALSE,
     concurrency |-> 1, limit |-> l, since |-> Undefined] :
       m \in {"sync", "backfill"}, l \in {0, 2} }
  \cup
  { [mode |-> "backfill", dryRun |-> TRUE, includeDataset |-> FALSE,
     concurrency |-> 1, limit |-> 0, since |-> 1] }

InitList ==
  /\ QueueIdle /\ AtomicIdle /\ RetryIdle /\ OthersIdle
  /\ \E old \in {Ids, {"r1"}, {}} :
       remote = [id \in Ids |->
                   [recordedAt |-> IF id \in old THEN 0 ELSE 2,
                    updatedAt |-> 0, hasTranscript |-> id # "r2",
                    hasAudioUrl |-> id # "r429"]]
  /\ \E last \in {0, 1} :
       \E e1 \in FileEntries("r1"), e2 \in FileEntries("r2"),
          e3 \in FileEntries("r429") :
         \E form \in FileForms :
           /\ form # "valid" => e2 = NoState /\ e3 = NoState
           /\ stateFile =
                IF form = "none" THEN NoFile
                ELSE [exists |-> TRUE, form |-> form,
                      state |->
                        [lastSuccessfulSyncAt |-> last, lastAttemptAt |-> 1,
                         recordings |->
                           [id \in Ids |-> IF id = "r1" THEN e1
                                           ELSE IF id = "r2" THEN e2 ELSE e3]]]
  /\ disk = [id \in Ids |-> EmptyDir]
  /\ dataset = <<>>
  /\ now = 2 /\ rpc = "load" /\ kind = "run" /\ opts \in ListOptions
  /\ tracker = EmptySyncState /\ startFile = stateFile /\ dsStart = 0
  /\ dsOpen = FALSE /\ skipped = <<>>
  /\ ipc = <<>> /\ attempt = <<>> /\ hasTx = <<>> /\ hasAu = <<>>
  /\ faultsOf = <<>> /\ faults = 0
  /\ persistCalls = 0 /\ phaseFail = "none" /\ runErr = NoError
  /\ result = NoResult

NextList ==
  \/ Load
  \/ List

SpecList == InitList /\ [][NextList]_vars

(***************************************************************************)
(* SpecChecksums: manifests are written and verified over one directory    *)
(* whose entries change between the calls                                  *)
(***************************************************************************)
InitChecksums ==
  /\ QueueIdle /\ AtomicIdle /\ RetryIdle /\ RunIdle
  /\ SinkIdle /\ ReauthIdle /\ JobIdle /\ PgIdle
  /\ \E m, t, a \in {0, NotRegular} \cup (1..MaxContent) :
       LET d == [meta |-> m, tx |-> t, audio |-> a, manifest |-> NoManifest]
       IN ck = CkState(d, d, "none", <<>>)

NextChecksums ==
  \/ CkWrite /\ UNCHANGED <<qvars, avars, tvars, alive, rvars, sink, reauth, job, pg>>
  \/ CkVerify /\ UNCHANGED <<qvars, avars, tvars, alive, rvars, sink, reauth, job, pg>>
  \/ CkAlter /\ UNCHANGED <<qvars, avars, tvars, alive, rvars, sink, reauth, job, pg>>
  \/ CkDropManifest
       /\ UNCHANGED <<qvars, avars, tvars, alive, rvars, sink, reauth, job, pg>>

SpecChecksums == InitChecksums /\ [][NextChecksums]_vars

(***************************************************************************)
(* SpecSink: sessions of open, append and close on the dataset file, with  *)
(* several appends in flight                                               *)
(***************************************************************************)
InitSink ==
  /\ QueueIdle /\ AtomicIdle /\ RetryIdle /\ RunIdle
  /\ CkIdle /\ SinkIdle /\ ReauthIdle /\ JobIdle /\ PgIdle

NextSink ==
  \/ SinkOpen /\ UNCHANGED <<qvars, avars, tvars, rvars, ck, reauth, job, pg>>
  \/ SinkOpenFails /\ UNCHANGED <<qvars, avars, tvars, rvars, ck, reauth, job, pg>>
  \/ SinkAppend /\ UNCHANGED <<qvars, avars, tvars, rvars, ck, reauth, job, pg>>
  \/ SinkAppendRaises
       /\ UNCHANGED <<qvars, avars, tvars, rvars, ck, reauth, job, pg>>
  \/ SinkFlush /\ UNCHANGED <<qvars, avars, tvars, rvars, ck, reauth, job, pg>>
  \/ SinkWriteFails /\ UNCHANGED <<qvars, avars, tvars, rvars, ck, reauth, job, pg>>
  \/ SinkClose /\ UNCHANGED <<qvars, avars, tvars, rvars, ck, reauth, job, pg>>
  \/ SinkKill /\ UNCHANGED <<qvars, avars, tvars, rvars, ck, reauth, job, pg>>

SpecSink == InitSink /\ [][NextSink]_vars

(***************************************************************************)
(* SpecReauth: one call of sync() or backfill() with any options           *)
(***************************************************************************)
InitReauth ==
  /\ QueueIdle /\ AtomicIdle /\ RetryIdle /\ RunIdle
  /\ CkIdle /\ SinkIdle /\ JobIdle /\ PgIdle
  /\ \E mode \in {"sync", "backfill"} : \E partial \in PartialOptions :
       reauth = [pc |-> "build1", mode |-> mode, partial |-> partial,
                 calls |-> <<>>, first |-> NoError, second |-> NoError,
                 auths |-> 0, at |-> "none", out |-> NoOutcome]

NextReauth ==
  \/ ReauthBuild /\ UNCHANGED <<qvars, avars, tvars, alive, rvars, ck, sink, job, pg>>
  \/ ReauthBuildRaises
       /\ UNCHANGED <<qvars, avars, tvars, alive, rvars, ck, sink, job, pg>>
  \/ ReauthRunReturns
       /\ UNCHANGED <<qvars, avars, tvars, alive, rvars, ck, sink, job, pg>>
  \/ ReauthRunRaises
       /\ UNCHANGED <<qvars, avars, tvars, alive, rvars, ck, sink, job, pg>>
  \/ ReauthAuthenticate
       /\ UNCHANGED <<qvars, avars, tvars, alive, rvars, ck, sink, job, pg>>
  \/ ReauthAuthenticateRaises
       /\ UNCHANGED <<qvars, avars, tvars, alive, rvars, ck, sink, job, pg>>

SpecReauth == InitReauth /\ [][NextReauth]_vars

(***************************************************************************)
(* SpecJobs: tool calls of plaud_sync / plaud_backfill, each with its own  *)
(* job file                                                                *)
(***************************************************************************)
InitJobs ==
  /\ QueueIdle /\ AtomicIdle /\ RetryIdle /\ RunIdle
  /\ CkIdle /\ SinkIdle /\ ReauthIdle /\ JobIdle /\ PgIdle

NextJobs ==
  \/ \E j \in DOMAIN job : JobStart(j)
       /\ UNCHANGED <<qvars, avars, tvars, alive, rvars, ck, sink, reauth, pg>>
  \/ \E j \in DOMAIN job : JobWriteRunning(j)
       /\ UNCHANGED <<qvars, avars, tvars, alive, rvars, ck, sink, reauth, pg>>
  \/ \E j \in DOMAIN job : JobWriteRunningFails(j)
       /\ UNCHANGED <<qvars, avars, tvars, alive, rvars, ck, sink, reauth, pg>>
  \/ \E j \in DOMAIN job : JobReturn(j)
       /\ UNCHANGED <<qvars, avars, tvars, alive, rvars, ck, sink, reauth, pg>>
  \/ \E j \in DOMAIN job : JobCallResolves(j)
       /\ UNCHANGED <<qvars, avars, tvars, alive, rvars, ck, sink, reauth, pg>>
  \/ \E j \in DOMAIN job : JobCallRejects(j)
       /\ UNCHANGED <<qvars, avars, tvars, alive, rvars, ck, sink, reauth, pg>>
  \/ \E j \in DOMAIN job : JobWriteCompleted(j)
       /\ UNCHANGED <<qvars, avars, tvars, alive, rvars, ck, sink, reauth, pg>>
  \/ \E j \in DOMAIN job : JobWriteCompletedFails(j)
       /\ UNCHANGED <<qvars, avars, tvars, alive, rvars, ck, sink, reauth, pg>>
  \/ \E j \in DOMAIN job : JobWriteFailed(j)
       /\ UNCHANGED <<qvars, avars, tvars, alive, rvars, ck, sink, reauth, pg>>
  \/ \E j \in DOMAIN job : JobWriteFailedFails(j)
       /\ UNCHANGED <<qvars, avars, tvars, alive, rvars, ck, sink, reauth, pg>>

SpecJobs == InitJobs /\ [][NextJobs]_vars

(***************************************************************************)
(* SpecPaging: a run over a list that is read page by page while the       *)
(* device may upload a recording                                           *)
(***************************************************************************)
InitPaging ==
  /\ QueueIdle /\ AtomicIdle /\ RetryIdle /\ RunIdle
  /\ CkIdle /\ SinkIdle /\ ReauthIdle /\ JobIdle
  /\ \E n \in 0..MaxListed :
       pg = [PgOff EXCEPT
               !.pc = "request",
               !.server = [k \in 1..n |-> n + 1 - k],
               !.marks = [i \in 1..(MaxListed + MaxUploads) |-> 0]]

NextPaging ==
  \/ PgRequest
       /\ UNCHANGED <<qvars, avars, tvars, alive, rvars, ck, sink, reauth, job>>
  \/ PgYield
       /\ UNCHANGED <<qvars, avars, tvars, alive, rvars, ck, sink, reauth, job>>
  \/ PgPageEnd
       /\ UNCHANGED <<qvars, avars, tvars, alive, rvars, ck, sink, reauth, job>>
  \/ PgUpload
       /\ UNCHANGED <<qvars, avars, tvars, alive, rvars, ck, sink, reauth, job>>
  \/ PgQueue
       /\ UNCHANGED <<avars, tvars, alive, rvars, ck, sink, reauth, job>>
  \/ pg.pc = "queue" /\ Tick
       /\ UNCHANGED <<avars, tvars, xvars, alive, rvars>>
  \/ pg.pc = "queue" /\ Drain
       /\ UNCHANGED <<avars, tvars, xvars, alive, rvars>>
  \/ \E p \in DOMAIN task : PgItemSucceeds(p)
       /\ UNCHANGED <<avars, tvars, alive, rvars, ck, sink, reauth, job>>
  \/ \E p \in DOMAIN task : PgItemFails(p)
       /\ UNCHANGED <<avars, tvars, alive, rvars, ck, sink, reauth, job>>

SpecPaging == InitPaging /\ [][NextPaging]_vars

(***************************************************************************)
(* Spec: runs and verify passes over one output directory, which starts    *)
(* empty; the recordings of the account are fixed at the start             *)
(***************************************************************************)
Init ==
  /\ QueueIdle /\ AtomicIdle /\ RetryIdle /\ OthersIdle
  /\ remote = [id \in Ids |->
                 [recordedAt |-> 0, updatedAt |-> 0,
                  hasTranscript |-> id # "r2",
                  hasAudioUrl |-> id # "r429"]]
  /\ stateFile = NoFile
  /\ disk = [id \in Ids |-> EmptyDir]
  /\ dataset = <<>>
  /\ now = 0 /\ rpc = "idle" /\ kind = "none" /\ opts = NoOpts
  /\ tracker = EmptySyncState /\ startFile = stateFile /\ dsStart = 0
  /\ dsOpen = FALSE /\ skipped = <<>>
  /\ ipc = <<>> /\ attempt = <<>> /\ hasTx = <<>> /\ hasAu = <<>>
  /\ faultsOf = <<>> /\ faults = 0
  /\ persistCalls = 0 /\ phaseFail = "none" /\ runErr = NoError
  /\ result = NoResult

Next ==
  \/ RunStart
  \/ AuthCheck
  \/ AuthCheckFails
  \/ Load
  \/ List
  \/ ListFails
  \/ Open
  \/ OpenFails
  \/ RunTick
  \/ RunDrain
  \/ \E p \in DOMAIN ipc : WriteMetadata(p)
  \/ \E p \in DOMAIN ipc : WriteMetadataFails(p)
  \/ \E p \in DOMAIN ipc : GetTranscript(p)
  \/ \E p \in DOMAIN ipc : GetTranscriptFails(p)
  \/ \E p \in DOMAIN ipc : WriteTranscript(p)
  \/ \E p \in DOMAIN ipc : WriteTranscriptFails(p)
  \/ \E p \in DOMAIN ipc : DatasetAppend(p)
  \/ \E p \in DOMAIN ipc : DatasetAppendFails(p)
  \/ \E p \in DOMAIN ipc : AudioWritten(p)
  \/ \E p \in DOMAIN ipc : AudioNone(p)
  \/ \E p \in DOMAIN ipc : AudioFails(p)
  \/ \E p \in DOMAIN ipc : WriteChecksums(p)
  \/ \E p \in DOMAIN ipc : WriteChecksumsFails(p)
  \/ \E p \in DOMAIN ipc : MarkComplete(p)
  \/ Finalize
  \/ Persist
  \/ PersistFails
  \/ Return
  \/ VerifyStart
  \/ VerifyScan
  \/ Kill

Spec == Init /\ [][Next]_vars

(***************************************************************************)
(* SpecChange: Spec in which the account may change between two            *)
(* operations                                                              *)
(***************************************************************************)
\* after an operation has returned, the service finishes the transcript of
\* r2, or r1 is edited and gets a new version time
RemoteChange ==
  /\ alive /\ rpc = "returned" /\ now < MaxOps
  /\ ~remote["r2"].hasTranscript /\ remote["r1"].updatedAt = 0
  /\ \/ remote' = [remote EXCEPT !["r2"].hasTranscript = TRUE]
     \/ remote' = [remote EXCEPT !["r1"].updatedAt = now]
  /\ UNCHANGED <<qvars, avars, tvars, xvars, alive, stateFile, disk, dataset,
                 now, rpc, kind, opts, tracker, startFile, dsStart, dsOpen,
                 skipped, ipc, attempt, hasTx, hasAu, faultsOf, faults,
                 persistCalls, phaseFail, runErr, result>>

NextChange ==
  \/ Next
  \/ RemoteChange

SpecChange == Init /\ [][NextChange]_vars

(***************************************************************************)
(* The CLI: bin's parseAsync().catch and the sync / backfill actions       *)
(***************************************************************************)
\* enum ExitCode
ExitSuccess == 0
ExitPartialFailure == 1
ExitAuthFailure == 2
ExitStorageError == 3

\* toExitCode(err): instanceof AuthError, instanceof StorageError, else
toExitCode(err) ==
  IF err.isError /\ err.name = "AuthError" THEN ExitAuthFailure
  ELSE IF err.isError /\ err.name = "StorageError" THEN ExitStorageError
  ELSE ExitPartialFailure

\* the sync or backfill command has ended
CliOver == kind = "run" /\ rpc \in {"returned", "raised"}

\* the exit code of the process: the action prints the summary of a result
\* that was returned and resolves, so parseAsync resolves, process.exit is
\* not called and the process ends with code 0; an error the action raises
\* reaches the catch of bin, which exits with toExitCode(err)
CliExit == IF rpc = "returned" THEN ExitSuccess ELSE toExitCode(runErr)

(***************************************************************************)
(* Claims about run and verify (checked under Spec).                       *)
(***************************************************************************)
\* lastSuccessfulSyncAt as the operation found it in the state file
StartLast == startFile.state.lastSuccessfulSyncAt

\* the tracker of the operation holds the loaded state
Loaded == kind # "none" /\ rpc \notin {"auth", "load", "scan"} /\ phaseFail # "auth"

\* the work queue of this run has returned with an empty failed list
QueueReturnedClean ==
  kind = "run" /\ ~opts.dryRun /\ qpc = "returned" /\ failed = <<>>

\* C4: lastSuccessfulSyncAt, in the tracker and in the state file, changes
\* during a run only if that run's work queue returned an empty failed list;
\* a run with a failed item, a dry run and a verify pass leave it as it was.
C4_SyncTimestampOnlyAfterCleanQueue ==
  /\ (Loaded /\ tracker.lastSuccessfulSyncAt # StartLast) => QueueReturnedClean
  /\ stateFile.state.lastSuccessfulSyncAt # StartLast => QueueReturnedClean

\* C4 witness: a run with a failed item has persisted its state over a state
\* file that recorded an earlier successful sync
C4_Witness ==
  /\ kind = "run" /\ rpc = "returned" /\ Len(failed) >= 1
  /\ StartLast # 0 /\ StartLast # now
  /\ stateFile.state.lastAttemptAt = now
  /\ stateFile.state.lastSuccessfulSyncAt = StartLast

\* C7: at every step of a sync or backfill run, hence also if the process is
\* killed there, the state file is its pre-run content or the complete
\* end-of-run content, and every item it records with downloadedAt set has
\* its metadata file and its checksum manifest on disk.
C7_StateFileSafeUnderKill ==
  kind = "run" =>
    /\ \/ stateFile = startFile
       \/ /\ rpc \in {"close", "returned"}
          /\ stateFile = ValidFile(tracker)
    /\ \A id \in Ids :
         stateFile.state.recordings[id].downloadedAt # 0 =>
           disk[id].meta # 0 /\ disk[id].manifest.exists

\* C7 witness: the second run is killed after it completed one item and
\* rewrote the metadata of another; the state file still has the content of
\* the first run
C7_Witness ==
  /\ ~alive /\ kind = "run" /\ now = 2 /\ rpc = "queue"
  /\ startFile.exists /\ stateFile = startFile
  /\ \E id \in Ids : tracker.recordings[id].downloadedAt = now
  /\ \E id \in Ids :
       /\ disk[id].meta = now
       /\ disk[id].manifest.files["meta"] # FileChecksum(now)

\* the run is over and neither the authentication check nor the listing raised
RunOverPastListing ==
  /\ kind = "run" /\ rpc \in {"returned", "raised"}
  /\ ~opts.dryRun /\ phaseFail \notin {"auth", "list"}

\* persist is called only after the queue has returned, never while an item
\* is in flight, never in a dry run
PersistOnlyAfterQueue ==
  /\ (kind = "run" /\ persistCalls > 0) =>
       qpc = "returned" /\ {p \in DOMAIN task : task[p] = "running"} = {}
  /\ (kind = "run" /\ opts.dryRun) => persistCalls = 0

AuthRejected(p) == faultsOf[p] \cap {"tx.auth", "audio.url.auth"} # {}

\* C9: if a client call made while an item is processed raises an
\* authentication error, the run is aborted and that error is raised to the
\* caller of run; it is not swallowed nor recorded as the item's failure.
C9_AuthErrorAbortsRun ==
  \A p \in DOMAIN faultsOf :
    AuthRejected(p) =>
      /\ rpc \notin {"persist", "close", "returned"}
      /\ rpc = "raised" => runErr = AuthError

\* a sync over three items has returned; the transcript fetch of the item
\* at p raised a permanent error and nothing else failed
ScenarioC(p) ==
  /\ kind = "run" /\ opts.mode = "sync" /\ rpc = "returned"
  /\ Len(items) = 3 /\ p \in DOMAIN faultsOf
  /\ faultsOf[p] = {"tx.perm"}
  /\ \A q \in DOMAIN faultsOf : q # p => faultsOf[q] = {}

\* C10 as stated: the result has succeeded = 2 and failed = 1, the sync
\* timestamp is not advanced, and needsDownload is true for the item.
C10_Original_ScenarioC ==
  \A p \in 1..3 :
    ScenarioC(p) =>
      /\ result.succeeded = 2 /\ result.failed = 1
      /\ stateFile.state.lastSuccessfulSyncAt = StartLast
      /\ needsDownload(stateFile.state, Recording(items[p]))

\* C10 amended: the result has succeeded = 3 and failed = 0, the sync
\* timestamp is advanced, and the item has a tracker entry with
\* hasTranscript = false, so needsDownload is true for it.
C10_ScenarioC ==
  \A p \in 1..3 :
    ScenarioC(p) =>
      /\ result.succeeded = 3 /\ result.failed = 0
      /\ stateFile.state.lastSuccessfulSyncAt = now /\ StartLast # now
      /\ stateFile.state.recordings[items[p]].present
      /\ ~stateFile.state.recordings[items[p]].hasTranscript
      /\ needsDownload(stateFile.state, Recording(items[p]))

\* C10 witness: the scenario, with the transcript of the other item that
\* has one in the dataset
C10_Witness ==
  \E p \in 1..3 : ScenarioC(p) /\ Len(dataset) = 1

\* the failures of the transcript block: the fetch, the write of the
\* transcript files, the dataset append
TxFaults == {"tx.perm", "tx.transient", "tx.auth", "tx.write", "append"}

\* the only failures met while the item at p was processed are failures of
\* its transcript block
OnlyTranscriptFailed(p) ==
  /\ kind = "run" /\ p \in DOMAIN faultsOf
  /\ faultsOf[p] # {} /\ faultsOf[p] \subseteq TxFaults

C12_FailedItemsNeedDownload ==
  (kind = "run" /\ rpc = "returned" /\ ~opts.dryRun) =>
    \A k \in DOMAIN failed :
      needsDownload(stateFile.state, Recording(items[failed[k].item]))


\* an incremental sync without an explicit since, started right after a run
\* that marked the sync successful and completed every item of the account
RerunAfterCleanSync ==
  /\ kind = "run" /\ opts.mode = "sync" /\ opts.since = Undefined
  /\ StartLast # 0 /\ StartLast = now - 1
  /\ \A id \in Ids : startFile.state.recordings[id].downloadedAt = StartLast

\* C18 as stated: such a run reports every one of those items as skipped
\* and processes none.
C18_Original_RerunSkipsAll ==
  (RerunAfterCleanSync /\ rpc = "returned") =>
    result.skipped = Cardinality(Ids) /\ result.attempted = 0

\* C18 amended: such a run lists no item at all, because the client drops
\* every recording older than lastSuccessfulSyncAt: none is processed, none
\* is reported as skipped (skipped = 0), and no step of the run changes the
\* dataset file or an item directory.
C18_RerunListsNothing ==
  /\ [](RerunAfterCleanSync =>
          /\ items = <<>> /\ skipped = <<>>
          /\ rpc = "returned" =>
               /\ result.skipped = 0 /\ result.attempted = 0
               /\ result.succeeded = 0 /\ result.failed = 0)
  /\ [][RerunAfterCleanSync => dataset' = dataset /\ disk' = disk]_vars

\* C18 witness: the rerun has returned; the first sync had written
\* transcripts to the dataset
C18_Witness ==
  /\ RerunAfterCleanSync /\ rpc = "returned" /\ ~opts.dryRun
  /\ Len(dataset) >= 1
  /\ stateFile.state.lastSuccessfulSyncAt = now

\* C19: a dry run performs no write: no step of it changes an item file, a
\* checksum manifest, the dataset or the sync-state file; it starts no item
\* processor and returns attempted = succeeded = failed = 0.
C19_DryRunWritesNothing ==
  /\ [][(kind = "run" /\ opts.dryRun) =>
          disk' = disk /\ dataset' = dataset /\ stateFile' = stateFile]_vars
  /\ []((kind = "run" /\ opts.dryRun) =>
          /\ qpc = "off" /\ task = <<>> /\ ipc = <<>> /\ ~dsOpen
          /\ persistCalls = 0 /\ stateFile = startFile
          /\ rpc \in {"auth", "load", "list", "returned", "raised"}
          /\ rpc = "returned" =>
               /\ result.attempted = 0 /\ result.succeeded = 0
               /\ result.failed = 0 /\ result.skipped = Len(skipped))

\* C19 witness: a dry run over a directory written by an earlier run has
\* returned with one item to download and others skipped
C19_Witness ==
  /\ kind = "run" /\ opts.dryRun /\ rpc = "returned"
  /\ Len(items) >= 1 /\ result.skipped >= 1
  /\ stateFile.exists /\ \E id \in Ids : disk[id].manifest.exists

\* C20: if the client reports not authenticated at the start of a run, run
\* raises an authentication error before the tracker state is loaded, items
\* are listed, the dataset is opened or anything is written, and the check
\* is made once.
C20_UnauthenticatedFailsFast ==
  /\ []((kind = "run" /\ phaseFail = "auth") =>
          /\ rpc = "raised" /\ runErr = AuthError
          /\ tracker = EmptySyncState /\ items = <<>> /\ skipped = <<>>
          /\ qpc = "off" /\ ~dsOpen /\ persistCalls = 0
          /\ stateFile = startFile)
  /\ [][(rpc = "auth" /\ alive') =>
          /\ rpc' \in {"load", "raised"}
          /\ disk' = disk /\ dataset' = dataset /\ stateFile' = stateFile]_vars

\* C20 witness: the second operation is a run that found the client not
\* authenticated; the first one had written a state file
C20_Witness ==
  /\ kind = "run" /\ phaseFail = "auth" /\ rpc = "raised" /\ now = 2
  /\ stateFile.exists /\ stateFile.state.lastAttemptAt = 1

\* C24: an item's tracker entry has verified = true only if, since that
\* item was last written, a checksum pass actually compared the files of
\* its directory against a manifest and found no mismatch. Stated for the
\* persisted entries once an operation has returned: meta.json carries the
\* number of the operation that wrote the item last, verifiedAt the number
\* of the verify pass.
C24_VerifiedOnlyAfterCleanPass ==
  rpc = "returned" =>
    \A id \in Ids :
      LET e == stateFile.state.recordings[id] IN
      (e.present /\ e.verified) =>
        /\ e.verifiedAt # 0
        /\ disk[id].manifest.exists
        /\ disk[id].meta <= e.verifiedAt

\* the lines the current run has appended to the dataset file
LinesOfRun == SubSeq(dataset, dsStart + 1, Len(dataset))
LinesFor(id) == {k \in DOMAIN LinesOfRun : LinesOfRun[k] = id}

\* C27: in any run with the dataset enabled, the lines appended to the
\* dataset correspond one-to-one to the items that end in the succeeded list
\* with a fetched transcript: exactly one line for each such item, and no
\* line for an item that ends in the failed list.
C27_OneLinePerSucceededTranscript ==
  (kind = "run" /\ rpc = "returned" /\ opts.includeDataset /\ ~opts.dryRun) =>
    \A p \in DOMAIN items :
      Cardinality(LinesFor(items[p])) =
        IF task[p] = "ok" /\ hasTx[p] THEN 1 ELSE 0

\* C31: the exit code of the CLI distinguishes the four outcomes: a sync or
\* backfill that returns with at least one failed item exits 1 and not 0, a
\* run without a failure exits 0, an authentication error exits 2 and a
\* storage error exits 3.
C31_ExitCodeDistinguishesOutcomes ==
  CliOver =>
    /\ (rpc = "returned" /\ result.failed > 0) => CliExit = ExitPartialFailure
    /\ (rpc = "returned" /\ result.failed = 0) => CliExit = ExitSuccess
    /\ (rpc = "raised" /\ runErr = AuthError) => CliExit = ExitAuthFailure
    /\ (rpc = "raised" /\ runErr.name = "StorageError") =>
         CliExit = ExitStorageError

\* the order of C34; the statements of the transcript block count as the
\* transcript step, "done" comes last
StepRank(s) ==
  CASE s = "meta" -> 1
    [] s \in {"transcript", "transcript.write", "transcript.append"} -> 2
    [] s = "audio" -> 3
    [] s = "checksums" -> 4
    [] s = "complete" -> 5
    [] OTHER -> 6

\* the position that processes recording id in this run, if any
TasksOf(id) == {p \in DOMAIN ipc : items[p] = id}

\* some task of recording id is at one of the steps in S
AtStep(id, S) == \E p \in TasksOf(id) : task[p] = "running" /\ ipc[p] \in S

MarkedIffSucceeded ==
  /\ [](kind = "run" /\ rpc \in {"queue", "persist", "close"} =>
          /\ \A p \in DOMAIN task :
               /\ task[p] = "ok" =>
                    tracker.recordings[items[p]].downloadedAt = now
               /\ (qpc = "returned" /\ task[p] = "err") =>
                    tracker.recordings[items[p]] =
                      load(EmptySyncState).recordings[items[p]]
          /\ \A k \in DOMAIN skipped :
               tracker.recordings[skipped[k]] =
                 load(EmptySyncState).recordings[skipped[k]])
  /\ [][\A id \in Ids :
          (rpc = "queue" /\ rpc' = "queue"
             /\ tracker.recordings[id].downloadedAt = now) =>
            tracker'.recordings[id] = tracker.recordings[id]]_vars

\* the recordings run has put on its work list
WorkIds == {items[p] : p \in DOMAIN items}

\* recording id has an entry in the state file the run started from and has
\* changed remotely since that entry was written (no operation met a
\* failure, so the entry described the recording as it was)
ChangedSinceRecorded(id) ==
  /\ faults = 0
  /\ startFile.state.recordings[id].present
  /\ needsDownload(startFile.state, Recording(id))

\* C38: if an item already recorded in the tracker changes remotely after a
\* zero-failure sync, the next incremental sync run without an explicit
\* since lists that item and re-processes it.
C38_ChangedItemIsReprocessed ==
  (/\ kind = "run" /\ opts.mode = "sync" /\ opts.since = Undefined
   /\ ~opts.dryRun
   /\ StartLast # 0 /\ StartLast = now - 1
   /\ rpc \in {"open", "queue", "persist", "close", "returned"}) =>
    \A id \in Ids : ChangedSinceRecorded(id) => id \in WorkIds


\* C39: at the end of a run, verifyChecksums reports no mismatch for any
\* item directory that has a checksum manifest (no step of the model alters
\* a file from outside), also for an item whose re-processing in that run
\* failed after some of its files had been rewritten.
C39_ManifestMatchesAtEndOfRun ==
  (kind = "run" /\ rpc \in {"returned", "raised"}) =>
    \A id \in Ids :
      disk[id].manifest.exists => Len(verifyChecksums(disk[id])) = 0

\* C40: a run that has opened the dataset sink has closed it when run has
\* returned or raised, also when persisting the tracker state failed.
C40_SinkClosedWhenRunEnds ==
  (kind = "run" /\ rpc \in {"returned", "raised"}) => ~dsOpen

(***************************************************************************)
(* Claims about needsDownload and the listing (checked under SpecList).    *)
(***************************************************************************)
\* C16: needsDownload(item) is true exactly when the tracker has no entry
\* for the item's id, or the stored contentHash differs from the item's
\* fresh fingerprint, or the item reports a transcript and the stored entry
\* has hasTranscript = false, or the stored entry has no downloadedAt.
C16_NeedsDownloadExactly ==
  \A id \in Ids :
    LET e == stateFile.state.recordings[id]
        rec == Recording(id)
    IN needsDownload(stateFile.state, rec) =
         \/ ~e.present
         \/ e.contentHash # computeContentHash(rec)
         \/ rec.hasTranscript /\ ~e.hasTranscript
         \/ e.downloadedAt = 0

\* C16 witness: the loaded tracker holds an entry that needs download only
\* because it has no downloadedAt, one that needs none, and lacks an entry
C16_Witness ==
  /\ rpc = "list"
  /\ \E id \in Ids :
       LET e == tracker.recordings[id] IN
       /\ e.present /\ e.contentHash = computeContentHash(Recording(id))
       /\ e.hasTranscript /\ e.downloadedAt = 0
       /\ needsDownload(tracker, Recording(id))
  /\ \E id \in Ids : ~needsDownload(tracker, Recording(id))
  /\ \E id \in Ids : ~tracker.recordings[id].present

\* the effective since of the run and what the client yields for it
EffectiveSince ==
  IF opts.since # Undefined THEN opts.since
  ELSE IF opts.mode = "sync" THEN getSince(tracker) ELSE Undefined
Listed == listRecordings(EffectiveSince, opts.limit)
Needs(id) == needsDownload(tracker, Recording(id))
Skips(id) == ~needsDownload(tracker, Recording(id))

\* C17: in sync mode a listed item is put into the work list iff
\* needsDownload is true for it and is otherwise counted as skipped; in
\* backfill mode every listed item is put into the work list whatever the
\* tracker state, and skipped is 0.
C17_ListingPartition ==
  (kind = "run" /\ rpc \in {"open", "returned"}) =>
    /\ opts.mode = "sync" =>
         /\ items = SelectSeq(Listed, Needs)
         /\ skipped = SelectSeq(Listed, Skips)
    /\ opts.mode = "backfill" =>
         /\ items = Listed
         /\ skipped = <<>>
    /\ opts.dryRun => result.skipped = Len(skipped)

\* C17 witness: a sync with a limit has listed two items, one for the work
\* list and one skipped
C17_Witness ==
  /\ rpc = "open" /\ opts.mode = "sync" /\ opts.limit = 2
  /\ Len(items) = 1 /\ Len(skipped) = 1

\* C28: load does not raise and leaves the tracker in the empty state (no
\* recordings, no lastSuccessfulSyncAt) when the state file is missing, is
\* not parsable, or fails schema validation; when the file is valid the
\* tracker state equals the file's content.
C28_LoadFallsBackToEmpty ==
  (kind = "run" /\ rpc # "load") =>
    /\ phaseFail = "none" /\ runErr = NoError
    /\ (stateFile.exists /\ stateFile.form = "valid") =>
         tracker = stateFile.state
    /\ (~stateFile.exists \/ stateFile.form \in {"unparsable", "invalid"}) =>
         /\ tracker = EmptySyncState
         /\ getSince(tracker) = Undefined
         /\ \A id \in Ids : ~tracker.recordings[id].present

\* C28 witness: a state file that records a successful sync and a complete
\* item fails the schema validation; the run goes on with the empty tracker
\* and takes the item into its work list
C28_Witness ==
  /\ kind = "run" /\ rpc = "open"
  /\ stateFile.exists /\ stateFile.form = "invalid"
  /\ stateFile.state.lastSuccessfulSyncAt # 0
  /\ ~needsDownload(stateFile.state, Recording("r1"))
  /\ tracker = EmptySyncState /\ items # <<>> /\ items[1] = "r1"

\* C29: when a limit is given, a run considers at most limit listed items
\* in total: attempted + skipped <= limit, and in particular attempted <=
\* limit.
C29_LimitCapsItemsConsidered ==
  (kind = "run" /\ opts.limit > 0) =>
    /\ Len(items) + Len(skipped) <= opts.limit
    /\ Len(items) <= opts.limit
    /\ rpc = "returned" =>
         result.attempted + result.skipped <= opts.limit

\* C29 witness: a sync with limit 2 over three recordings of which the
\* first needs no download: one is skipped, one is taken, and the third,
\* which needs download, is not considered
C29_Witness ==
  /\ kind = "run" /\ rpc = "open" /\ opts.limit = 2
  /\ Len(listRecordings(EffectiveSince, 0)) = 3
  /\ skipped = <<"r1">> /\ items = <<"r2">>
  /\ needsDownload(tracker, Recording("r429"))

(***************************************************************************)
(* Claims about retryWithBackoff (checked under SpecRetry).                *)
(***************************************************************************)
\* the first n calls of fn all raised retryable errors
AllRetryable(n) ==
  \A j \in 1..n : ~tcalls[j].ok /\ isRetryableError(tcalls[j].err)

\* C13: an operation that fails with a non-retryable error is attempted
\* exactly once, no delay is waited for, and that same error is raised.
C13_NonRetryableStopsAtOnce ==
  (Len(tcalls) >= 1 /\ ~tcalls[1].ok /\ ~isRetryableError(tcalls[1].err)) =>
    /\ Len(tcalls) = 1 /\ tattempt = 1
    /\ tslept = <<>>
    /\ tpc = "raised" /\ tout = Raised(tcalls[1].err)

\* C13 witness: the first call was rejected as unauthenticated although
\* four attempts were allowed
C13_Witness ==
  /\ targ = Undefined /\ tpc = "raised"
  /\ tcalls = <<Raised(AuthError)>>

\* C14: for every k with 1 <= k <= maxAttempts, an operation that fails
\* with retryable errors on its first k-1 attempts and succeeds on attempt k
\* is attempted exactly k times and the value of attempt k is returned;
\* while only retryable failures were seen and fewer than maxAttempts
\* attempts were made, the call has not ended.
C14_SucceedsOnAttemptK ==
  /\ \A k \in 1..Len(tcalls) :
       (k <= EffectiveMax(targ) /\ AllRetryable(k - 1) /\ tcalls[k].ok) =>
         /\ Len(tcalls) = k /\ tattempt = k
         /\ tpc = "returned" /\ tout = Returned(k)
         /\ Len(tslept) = k - 1
  /\ (AllRetryable(Len(tcalls)) /\ Len(tcalls) < EffectiveMax(targ)) =>
       tpc \in {"try", "sleep"}

\* C14 witness: two retryable failures, success on the third of four
\* allowed attempts
C14_Witness ==
  /\ targ = Undefined /\ tpc = "returned" /\ tout = Returned(3)
  /\ Len(tcalls) = 3 /\ AllRetryable(2)
  /\ tslept = <<1000, 4000>>

\* C15: an operation that fails with a retryable error on every attempt is
\* attempted exactly maxAttempts times (4 by default), never more, and the
\* error of the last attempt is raised.
C15_ExhaustsAfterMaxAttempts ==
  LET max == IF targ = Undefined THEN 4 ELSE targ IN
  /\ Len(tcalls) <= max
  /\ (tpc \in {"returned", "raised"} /\ AllRetryable(Len(tcalls))) =>
       /\ Len(tcalls) = max
       /\ tpc = "raised" /\ tout = Raised(tcalls[max].err)
       /\ Len(tslept) = max - 1

\* C15 witness: four retryable failures with the default ceiling, the last
\* error differs from the first
C15_Witness ==
  /\ targ = Undefined /\ tpc = "raised" /\ Len(tcalls) = 4 /\ AllRetryable(4)
  /\ tcalls[1].err = ApiError(503) /\ tout = Raised(ApiError(429))

\* C36: retryWithBackoff makes a further attempt after a failure only when
\* the error is a service error whose status is 429 or at least 500;
\* authentication errors, storage errors and service errors with any other
\* status are never retried, whatever their message text.
C36_RetriesOnlyTransientServiceErrors ==
  \A k \in DOMAIN tcalls :
    (k < Len(tcalls) \/ tpc = "sleep") =>
      /\ tcalls[k].err.name = "ApiError"
      /\ tcalls[k].err.status = 429 \/ tcalls[k].err.status >= 500

(***************************************************************************)
(* Claims about the atomic writer (checked under SpecAtomic).              *)
(***************************************************************************)
\* C5: at every step of writeFileAtomic / writeStreamAtomic, and if the
\* process is killed at any step, the destination holds exactly its prior
\* content (absent if it was absent) or exactly the complete new content.
C5_DestinationNeverPartial ==
  apc # "off" => (fsys.dest = prior \/ fsys.dest = File(data))

\* C5 witness: the process was killed while the temporary file held a proper,
\* non-empty part of the data and the destination still held its old content
C5_Witness ==
  /\ ~alive /\ prior.exists /\ fsys.dest = prior
  /\ fsys.tmp.exists
  /\ Len(fsys.tmp.bytes) >= 1 /\ Len(fsys.tmp.bytes) < Len(data)

\* C6: once writeFileAtomic / writeStreamAtomic has raised, the error is a
\* StorageError carrying the destination path and the cause, the destination
\* is unchanged, and no temporary file of that call exists.
C6_FailureLeavesNoTemp ==
  apc = "raised" =>
    /\ raised = StorageError("dest", cause) /\ cause # "none"
    /\ fsys.dest = prior
    /\ ~fsys.tmp.exists

(***************************************************************************)
(* Claims about processQueue (checked under SpecQueue).                    *)
(***************************************************************************)
InFlight == {p \in DOMAIN task : task[p] = "running"}
Occurrences(seq, x) == Cardinality({k \in DOMAIN seq : seq[k] = x})
FailedItems == [k \in DOMAIN failed |-> failed[k].item]

\* C1: at every moment of a processQueue call the number of processors that
\* have been started and have not yet settled is at most the limit N.
C1_AtMostNInFlight == Cardinality(InFlight) <= concurrency

\* C1 witness: the limit is reached while further items are still waiting
C1_Witness ==
  /\ concurrency >= 2 /\ Cardinality(InFlight) = concurrency
  /\ index < Len(items) /\ Len(succeeded) + Len(failed) > 0

\* C2: when processQueue returns, every item's processor has been invoked
\* exactly once and the item is in exactly one result list, exactly once:
\* succeeded iff it did not raise, failed (with its error) iff it raised;
\* the two lists together are as long as the input.
C2_EachItemOnceInOneList ==
  qpc = "returned" =>
    /\ \A p \in DOMAIN items :
         /\ invoked[p] = 1
         /\ Occurrences(succeeded, p) + Occurrences(FailedItems, p) = 1
         /\ (Occurrences(succeeded, p) = 1) <=> (thrown[p] = NoError)
         /\ thrown[p] # NoError =>
              \E k \in DOMAIN failed :
                failed[k] = [item |-> p, error |-> ToError(thrown[p])]
    /\ Len(succeeded) + Len(failed) = Len(items)

\* C2 witness: a returned call with both lists non-empty, a wrapped non-Error
\* among the failures, and more items than slots
C2_Witness ==
  /\ qpc = "returned" /\ Len(items) > concurrency
  /\ Len(succeeded) > 0
  /\ \E k \in DOMAIN failed :
       /\ ~thrown[failed[k].item].isError /\ failed[k].error.isError

\* C3: processQueue returns only when no processor is in flight and no input
\* item is left unstarted, however many processors failed and however early.
C3_DrainedAtReturn ==
  qpc = "returned" =>
    /\ InFlight = {}
    /\ \A p \in DOMAIN items : task[p] \in {"ok", "err"}

\* C3 witness: the first item failed before anything else settled, a later
\* item failed too, and the last item still ran to completion
C3_Witness ==
  /\ qpc = "returned" /\ Len(items) >= 3 /\ Len(items) > concurrency
  /\ Len(failed) >= 2 /\ failed[1].item = 1
  /\ succeeded # <<>> /\ succeeded[Len(succeeded)] = Len(items)

(***************************************************************************)
(* Claims about runWithReauth (checked under SpecReauth).                  *)
(***************************************************************************)
\* the call of sync() / backfill() has returned or raised
ReauthDone == reauth.pc \in {"returned", "raised"}

\* the invocations of engine.run made after the re-authentication
CallsAfterReauth == {k \in DOMAIN reauth.calls : reauth.calls[k].after = 1}

\* never more than two invocations and one re-authentication, every
\* invocation with the caller's mode and options; authenticate() is called
\* iff the first attempt raised an authentication error; whatever else is
\* raised goes to the caller
ReauthOnlyOnFirstAuthError ==
  /\ Len(reauth.calls) <= 2 /\ reauth.auths <= 1
  /\ \A k \in DOMAIN reauth.calls :
       reauth.calls[k].opts = buildSyncOptions(reauth.partial, reauth.mode)
  /\ (reauth.auths = 1) <=> (reauth.first = AuthError /\ reauth.pc # "auth")
  /\ (ReauthDone /\ reauth.first # AuthError) =>
       /\ Len(reauth.calls) = 1 /\ reauth.at = "run1"
       /\ reauth.out = IF reauth.first = NoError
                         THEN Returned(1) ELSE Raised(reauth.first)
  /\ (ReauthDone /\ reauth.first = AuthError) =>
       /\ reauth.at \in {"auth", "build2", "run2"}
       /\ reauth.out = IF reauth.second = NoError
                         THEN Returned(Len(reauth.calls))
                         ELSE Raised(reauth.second)

\* C21 as stated: a sync or backfill call invokes the orchestrator at most
\* twice: iff the first invocation (or building its client) raises an
\* authentication error, re-authentication is performed exactly once and
\* the orchestrator is invoked once more; an authentication error from the
\* second invocation, and any other error from either, is raised to the
\* caller with no further attempt.
C21_Original_ReauthThenRunAgain ==
  /\ ReauthOnlyOnFirstAuthError
  /\ (ReauthDone /\ reauth.first = AuthError) =>
       reauth.auths = 1 /\ Cardinality(CallsAfterReauth) = 1

\* C21 amended: a sync or backfill call invokes the orchestrator at most
\* twice: iff the first invocation (or building its client) raises an
\* authentication error, re-authentication is attempted exactly once, and
\* the orchestrator is invoked once more provided the re-authentication and
\* the rebuilding of the client do not raise; an error of either of these
\* two steps, an authentication error from the second invocation, and any
\* other error from either invocation, is raised to the caller with no
\* further attempt.
C21_ReauthAtMostOnce ==
  /\ ReauthOnlyOnFirstAuthError
  /\ (ReauthDone /\ reauth.first = AuthError) =>
       /\ reauth.auths = 1
       /\ Cardinality(CallsAfterReauth) = IF reauth.at = "run2" THEN 1 ELSE 0
       /\ reauth.at = "auth" => reauth.out = Raised(LoginError)
       /\ reauth.at = "build2" => reauth.out = Raised(AuthError)

\* C21 witness: the first invocation was rejected as unauthenticated, the
\* re-authentication succeeded, and the second invocation raised an
\* authentication error, which the call raised
C21_Witness ==
  /\ reauth.pc = "raised" /\ reauth.at = "run2"
  /\ Len(reauth.calls) = 2 /\ reauth.auths = 1
  /\ reauth.calls[1].after = 0 /\ reauth.calls[2].after = 1
  /\ reauth.out = Raised(AuthError)

(***************************************************************************)
(* Claims about the checksum manifest (checked under SpecChecksums).       *)
(***************************************************************************)
\* C22: after writeChecksumManifest(dir, id) returns, the manifest lists
\* exactly the regular files present in dir other than checksums.json, each
\* with the SHA-256 and the size of its current content; no entry of an
\* earlier manifest survives for a file that is no longer present. The call
\* leaves the files themselves as they were.
C22_ManifestListsExactlyTheFiles ==
  ck.op = "write" =>
    /\ ck.dir.manifest.exists
    /\ \A f \in FileNames :
         /\ ck.dir[f] = ck.prev[f]
         /\ IsFile(ck.dir[f]) =>
              /\ ck.dir.manifest.files[f].sha256 = sha256File(ck.dir[f])
              /\ ck.dir.manifest.files[f].sizeBytes = SizeOf(ck.dir[f])
         /\ ~IsFile(ck.dir[f]) => ck.dir.manifest.files[f] = NoEntry

\* C22 witness: the manifest was rewritten over an earlier one that listed a
\* file since deleted and another one with its old content; the directory
\* also holds a subdirectory
C22_Witness ==
  /\ ck.op = "write" /\ ck.prev.manifest.exists
  /\ \E f \in FileNames :
       ck.prev.manifest.files[f] # NoEntry /\ ck.dir[f] = 0
  /\ \E f \in FileNames :
       /\ IsFile(ck.dir[f]) /\ ck.prev.manifest.files[f] # NoEntry
       /\ ck.prev.manifest.files[f] # FileChecksum(ck.dir[f])
  /\ \E f \in FileNames : ck.dir[f] = NotRegular

\* the records of the result that are about the file f
RecordsOf(f) == {k \in DOMAIN ck.out : ck.out[k].filePath = f}

\* C23: verifyChecksums(dir) returns exactly one mismatch record for each
\* manifest entry whose file's current hash differs from the recorded one
\* or whose file is missing (actual value "MISSING" in that case), no record
\* for any entry whose file is unchanged, and an empty list without raising
\* when the directory has no manifest; it changes no file.
C23_VerifyReportsEachMismatchOnce ==
  ck.op = "verify" =>
    /\ ck.dir = ck.prev
    /\ ~ck.dir.manifest.exists => ck.out = <<>>
    /\ ck.dir.manifest.exists =>
         \A f \in FileNames :
           LET e == ck.dir.manifest.files[f] IN
           IF e # NoEntry /\ ~IsFile(ck.dir[f])
             THEN /\ Cardinality(RecordsOf(f)) = 1
                  /\ \A k \in RecordsOf(f) :
                       ck.out[k] = ChecksumMismatchError(f, e.sha256, Missing)
           ELSE IF e # NoEntry /\ sha256File(ck.dir[f]) # e.sha256
             THEN /\ Cardinality(RecordsOf(f)) = 1
                  /\ \A k \in RecordsOf(f) :
                       ck.out[k] = ChecksumMismatchError(f, e.sha256,
                                                         sha256File(ck.dir[f]))
           ELSE RecordsOf(f) = {}

\* C23 witness: of three listed files one was changed to a content of the
\* same length, one was deleted and one is unchanged: two records
C23_Witness ==
  /\ ck.op = "verify" /\ ck.dir.manifest.exists /\ Len(ck.out) = 2
  /\ \A f \in FileNames : ck.dir.manifest.files[f] # NoEntry
  /\ \E k \in DOMAIN ck.out : ck.out[k].actual = Missing
  /\ \E k \in DOMAIN ck.out :
       /\ ck.out[k].actual # Missing
       /\ SizeOf(ck.dir[ck.out[k].filePath]) =
            ck.dir.manifest.files[ck.out[k].filePath].sizeBytes

(***************************************************************************)
(* Claims about the dataset sink (checked under SpecSink).                 *)
(***************************************************************************)
IsPrefix(a, b) == Len(a) <= Len(b) /\ SubSeq(b, 1, Len(a)) = a

\* C25: for any sequence of open, append and close on the dataset sink,
\* across runs and re-exports, content already in the dataset file is never
\* modified or removed: the file's earlier content is always a prefix of
\* its later content.
C25_DatasetOnlyGrows == [][IsPrefix(sink.file, sink'.file)]_vars

\* C25 witness: the first session was cut off in the middle of a line; a
\* second session, opened over that file, has added a whole line behind it
C25_Witness ==
  /\ sink.session = 2 /\ sink.stream = "open"
  /\ sink.opened > LineLen /\ sink.file[sink.opened].k < LineLen
  /\ Len(sink.file) >= sink.opened + LineLen

FinalStatuses == {"completed", "failed"}

\* the job's runner has finished: its last writeJob returned or raised
JobOver(j) == job[j].pc \in {"end", "lost"}

\* the statuses the job file recorded after 'running'
AfterRunning(j) == SubSeq(job[j].hist, 2, Len(job[j].hist))

\* C30 as stated: every job is recorded as running before the tool call
\* returns its jobId, and once the sync or backfill call has settled and the
\* runner is over the recorded status has changed exactly once, to completed
\* with the result or to failed with the error of that call.
C30_Original_StatusChangesExactlyOnce ==
  \A j \in DOMAIN job :
    /\ job[j].returned => job[j].hist # <<>> /\ job[j].hist[1] = "running"
    /\ JobOver(j) =>
         /\ AfterRunning(j) = <<FinalStatus(job[j].settle)>>
         /\ job[j].file = JobFile(FinalStatus(job[j].settle), job[j].settle)

\* C30: every job is recorded as running before the tool call returns its
\* jobId. A completed or failed status is the last thing the job file
\* records and is never overwritten. When the runner is over and no
\* writeJob raised, the status has changed exactly once, to completed with
\* the result or to failed with the error of the call. Completed is only
\* recorded for a call that returned, with its result; failed is recorded
\* with the error of the call, or with the write error when the call
\* returned and recording completed raised; when recording failed raises
\* too, no final status is ever recorded: the file still says running or is
\* left truncated.
C30_StatusFinalOnceWritten ==
  /\ [](\A j \in DOMAIN job :
          /\ job[j].returned =>
               job[j].hist # <<>> /\ job[j].hist[1] = "running"
          /\ \A k \in DOMAIN job[j].hist :
               job[j].hist[k] \in FinalStatuses => k = Len(job[j].hist)
          /\ (JobOver(j) /\ job[j].wfail = 0) =>
               /\ AfterRunning(j) = <<FinalStatus(job[j].settle)>>
               /\ job[j].file =
                    JobFile(FinalStatus(job[j].settle), job[j].settle)
          /\ job[j].file.status = "completed" =>
               job[j].settle.ok /\ job[j].file.outcome = job[j].settle
          /\ job[j].file.status = "failed" =>
               \/ ~job[j].settle.ok /\ job[j].file.outcome = job[j].settle
               \/ /\ job[j].settle.ok /\ job[j].wfail = 1
                  /\ job[j].file.outcome = Raised(WriteError)
          /\ job[j].pc = "end" => job[j].file.status \in FinalStatuses
          /\ job[j].pc = "lost" =>
               /\ job[j].file.status \in {"running", "corrupt"}
               /\ job[j].wfail >= 1)
  /\ [][\A j \in DOMAIN job :
          job[j].file.status \in FinalStatuses =>
            job'[j].file = job[j].file]_vars

\* C30 witness: two jobs are over and no writeJob raised; one records
\* completed with the result, the other failed with the error of the call
C30_Witness ==
  /\ job[1].pc = "end" /\ job[1].wfail = 0
  /\ job[1].file = JobFile("completed", Returned(1))
  /\ job[2].pc = "end" /\ job[2].wfail = 0
  /\ job[2].file = JobFile("failed", Raised(AuthError))
  /\ job[2].hist = <<"running", "failed">>

\* C32: processQueue eventually returns for every finite item list and
\* every concurrency limit N >= 1, provided each processor invocation
\* eventually settles: no interleaving of processor completions with the
\* registration of the coordinator's wake-up leaves the coordinator waiting
\* for ever.
C32_ProcessQueueEventuallyReturns == <>(qpc = "returned")


\* C33: if the processor of one item never settles, the processor of every
\* other item is still started and runs to completion, for every
\* concurrency limit N >= 1: the hung item blocks no sibling.
C33_HungItemBlocksNoSibling ==
  \A p \in 1..MaxItems :
    [](p \in DOMAIN task /\ Hung # {} /\ p \notin Hung
         => <>(p \in DOMAIN task /\ task[p] \in {"ok", "err"}))

\* the same for limits N >= 2 only
C33_HungItemBlocksNoSiblingFrom2 ==
  \A p \in 1..MaxItems :
    [](p \in DOMAIN task /\ Hung # {} /\ p \notin Hung /\ concurrency >= 2
         => <>(p \in DOMAIN task /\ task[p] \in {"ok", "err"}))


(***************************************************************************)
(* Claims about the items of one run (checked under SpecPaging).           *)
(***************************************************************************)
\* C37: within one run no two in-flight item tasks ever process the same
\* item id, so no two tasks write the same tracker key or the same item
\* directory concurrently.
C37_NoTwoTasksOnOneItem ==
  \A p, q \in DOMAIN task :
    (p # q /\ task[p] = "running" /\ task[q] = "running") =>
      items[p] # items[q]


\* the recordings in the succeeded list and in the failed list
SucceededIds == {items[succeeded[k]] : k \in DOMAIN succeeded}
FailedIds == {items[failed[k].item] : k \in DOMAIN failed}

\* C35: during a run the tracker entry of an item is written (markComplete)
\* exactly when the item ends in the succeeded list, it is written at most
\* once per item per run, and an item that ends in the failed list keeps its
\* pre-run entry.
C35_EntryWrittenOncePerSucceededItem ==
  \A id \in DOMAIN pg.marks :
    /\ pg.marks[id] <= 1
    /\ qpc = "returned" =>
         /\ pg.marks[id] >= 1 <=> id \in SucceededIds
         /\ id \in FailedIds => pg.marks[id] = 0


====
